---------------------------- MODULE Spec2Model ----------------------------
(***************************************************************************)
(* Model of the waldur-site-agent OpenStack plugin (OpenStackBackend ->    *)
(* OpenStackClient -> KeystoneClient -> Keystone).                         *)
(*                                                                         *)
(* Strings that the code inspects character by character (identifiers,    *)
(* project names) are sequences of one-character strings.  Every request   *)
(* to Keystone is a fault point: an oracle chosen per backend call says    *)
(* which requests raise, and for how many attempts of a retried gateway    *)
(* function.                                                               *)
(***************************************************************************)
EXTENDS Integers, Sequences, FiniteSets, TLC

VARIABLES
    ks,      \* the identity service: domains, projects, users, roles, role assignments
    config,  \* OpenStackConfig of the backend instance
    last,    \* the backend call that completed last: arguments, outcome, observations
    au,      \* an add_users_to_resource call in progress while another caller acts
    rt,      \* a call through retry_on_exception's wrapper in progress
    lc,      \* the end-to-end scenario of one resource: its step and what each call returned
    cr,      \* the callers of _create_resource_in_backend, each at its own request
    sz,      \* a name, its sanitized form, and the sanitized form of that
    ro       \* the read-only backend call that completed last: arguments and what it returned

vars == <<ks, config, last, au, rt, lc, cr, sz, ro>>

-----------------------------------------------------------------------------
(* Bounds and program constants *)

\* at most this many fault points are hit during one backend call
MaxFaults == 1

\* utils.validate_backend_id: longest accepted backend id
MaxBackendIdLen == 255

\* retry_on_exception(max_attempts=3, ...) on the KeystoneClient methods
GatewayMaxAttempts == 3

\* the largest max_attempts a retry wrapper is configured with
MaxRetryAttempts == 3

\* the longest name given to the sanitizer on its own
MaxLen == 3

-----------------------------------------------------------------------------
(* Strings *)

Letters ==
    { "a","b","c","d","e","f","g","h","i","j","k","l","m",
      "n","o","p","q","r","s","t","u","v","w","x","y","z",
      "A","B","C","D","E","F","G","H","I","J","K","L","M",
      "N","O","P","Q","R","S","T","U","V","W","X","Y","Z" }

Digits == { "0","1","2","3","4","5","6","7","8","9" }

Whitespace == { " ", "\t", "\n", "\r" }

\* str.strip() leaves nothing
IsBlank(s) == \A i \in 1..Len(s) : s[i] \in Whitespace

\* str.isdigit()
IsDigit(s) == Len(s) > 0 /\ \A i \in 1..Len(s) : s[i] \in Digits

ProjectPrefix == << "p","r","o","j","e","c","t","_" >>

DefaultName ==
    << "s","a","n","i","t","i","z","e","r","_",
       "d","e","f","a","u","l","t","_","n","a","m","e" >>

\* re.sub(r'^[^a-zA-Z0-9]+', '', s)
RECURSIVE StripLeading(_)
StripLeading(s) ==
    IF s = << >> \/ Head(s) \in Letters \cup Digits
    THEN s
    ELSE StripLeading(Tail(s))

\* a variant of the sanitizer without the prefix for digit-only names
sanitize_for_openstack_unprefixed(name) ==
    LET replaced == [i \in 1..Len(name) |-> IF name[i] = " " THEN "_" ELSE name[i]]
        allowed(c) == c \in Letters \cup Digits \cup {"_", "-", "."}
        stripped == StripLeading(SelectSeq(replaced, allowed))
    IN  IF stripped = << >> THEN DefaultName ELSE stripped

sanitize_for_openstack(name) ==
    LET replaced == [i \in 1..Len(name) |-> IF name[i] = " " THEN "_" ELSE name[i]]
        allowed(c) == c \in Letters \cup Digits \cup {"_", "-", "."}
        removed  == SelectSeq(replaced, allowed)
        stripped == StripLeading(removed)
        numbered == IF IsDigit(stripped) THEN ProjectPrefix \o stripped ELSE stripped
    IN  IF numbered = << >> THEN DefaultName ELSE numbered

\* TRUE when validate_backend_id returns, FALSE when it raises ValueError
validate_backend_id(backend_id) ==
    /\ backend_id # << >>
    /\ ~ (Len(backend_id) > MaxBackendIdLen)

-----------------------------------------------------------------------------
(* Input domains *)

IdPlain == << "a", " ", "1" >>           \* names the project "a_1"
IdBlank == << " " >>
IdEmpty == << >>
IdLong  == [i \in 1..(MaxBackendIdLen + 1) |-> "x"]

\* "abc-123", an identifier the sanitizer leaves as it is
IdScenario == << "a", "b", "c", "-", "1", "2", "3" >>

\* "a_1", another identifier of the project "a_1"
IdUnder == << "a", "_", "1" >>

Uuids      == { IdEmpty, IdPlain, IdLong }
BackendIds == { IdEmpty, IdBlank, IdPlain, IdLong }

Usernames == { "alice", "bob" }

ResourceNames == { << >>, << "l", "a", "b" >> }
ResourceDescriptions == { << >>, << "d" >> }

\* a role granted by an administrator outside the engine
OtherRole == "admin"

None == << >>
Some(x) == << x >>

-----------------------------------------------------------------------------
(* Fault oracle *)

\* A fault choice <<user, api, qualifier, n>>: the request `api' raises
\* during the first n attempts of the gateway function that issues it, in
\* the part of the call that works on `user' ("" outside a per-user loop).
\* The requests issued from inside a retried gateway function (create_project,
\* ensure_user) can fail once or on every attempt; the others are issued once.
RetriedApis ==
    { <<"domains.list", "">>, <<"domains.create", "">>,
      <<"projects.list", "after_conflict">>, <<"projects.create", "">>,
      <<"users.list", "">>, <<"users.list", "after_conflict">>,
      <<"users.create", "">>, <<"get_token", "">> }

FaultCounts(a) == IF a \in RetriedApis THEN { 1, GatewayMaxAttempts } ELSE { 1 }

FaultChoices(users, apis) ==
    UNION { { <<u, a[1], a[2], n>> : n \in FaultCounts(a) } : u \in users, a \in apis }

RECURSIVE OraclesUpTo(_, _)
OraclesUpTo(choices, k) ==
    IF k = 0
    THEN { {} }
    ELSE LET smaller == OraclesUpTo(choices, k - 1)
         IN  smaller \cup { o \cup {c} : o \in smaller, c \in choices }

\* all oracles that hit at most MaxFaults of the given fault choices
Oracles(choices) == OraclesUpTo(choices, MaxFaults)

\* a call that returns or raises before its first request meets no fault
OraclesIf(requests, choices) == IF requests THEN Oracles(choices) ELSE { {} }

\* the oracle as one user's part of the call sees it
For(o, u) == { <<"", c[2], c[3], c[4]>> : c \in { d \in o : d[1] = u } }

Fails(o, api, qual, attempt) ==
    \E c \in o : c[1] = "" /\ c[2] = api /\ c[3] = qual /\ attempt <= c[4]

-----------------------------------------------------------------------------
(* utils.retry_on_exception: the wrapper around an arbitrary operation.    *)
(* Delays are whole numbers of time units.                                 *)

BaseDelays == { 0, 1, 2 }
ExponentialBases == { 1, 2, 3 }
MaxDelays == { 1, 3, 60 }

\* the kinds of failure the wrapped operation can raise, and the tuples of
\* kinds a wrapper can be configured to retry on
FailureKinds == { "KeystoneClientError", "ValueError" }
RetryableSets == { {"KeystoneClientError"}, FailureKinds }

\* what one invocation of the wrapped operation does: return a value, or
\* raise an exception object (its class, and the invocation that raised it)
Returned(value) == [kind |-> "ok", value |-> Some(value), exc |-> None]
Failed(class, n) == [kind |-> "exc", value |-> None,
                     exc |-> Some([class |-> class, n |-> n])]

Invocations(n) == { Returned("value") } \cup { Failed(c, n) : c \in FailureKinds }

RECURSIVE Pow(_, _)
Pow(b, e) == IF e = 0 THEN 1 ELSE b * Pow(b, e - 1)

Min(a, b) == IF a <= b THEN a ELSE b

NoRetry ==
    [pc |-> "idle", max_attempts |-> 0, base_delay |-> 0, exponential_base |-> 0,
     max_delay |-> 0, exceptions |-> {}, attempt |-> 0, calls |-> << >>,
     slept |-> << >>, result |-> None, raised |-> None]

\* a variant of the delay without the cap of max_delay
retry_delay_uncapped(r, attempt) ==
    r.base_delay * Pow(r.exponential_base, attempt - 1)

\* a variant of the delay that counts the exponent from the attempt number
retry_delay_late(r, attempt) ==
    Min(r.base_delay * Pow(r.exponential_base, attempt), r.max_delay)

\* delay = min(base_delay * (exponential_base ** (attempt - 1)), max_delay)
retry_delay(r, attempt) ==
    Min(r.base_delay * Pow(r.exponential_base, attempt - 1), r.max_delay)

\* a variant of the except clause that catches every kind
retry_catches_any(r, exc) == exc.class \in FailureKinds

\* `except exceptions as e': the clause catches the configured kinds only
retry_catches(r, exc) == exc.class \in r.exceptions

\* a variant of the last attempt's handler that raises a new error
retry_exhausted_wrapped(r, exc) ==
    [r EXCEPT !.pc = "raised",
              !.raised = Some([class |-> "RuntimeError", n |-> exc.n])]

\* `if attempt == max_attempts: ... raise': the caught exception goes on
retry_exhausted(r, exc) == [r EXCEPT !.pc = "raised", !.raised = Some(exc)]

\* the wrapper after one invocation of the operation (call); r already
\* counts the invocation
retry_after(r, call) ==
    IF call.kind = "ok"
    THEN [r EXCEPT !.pc = "returned", !.result = call.value]
    ELSE IF ~ retry_catches(r, call.exc[1])
    THEN [r EXCEPT !.pc = "raised", !.raised = call.exc]
    ELSE IF r.attempt = r.max_attempts
    THEN retry_exhausted(r, call.exc[1])
    ELSE [r EXCEPT !.pc = "sleep"]

-----------------------------------------------------------------------------
(* Keystone, as KeystoneClient uses it *)

\* what a gateway function hands back: the service afterwards, the value
\* returned, the exception raised ("none" when it returns) and the requests
\* observed on the way
Ret(k, res, exc, ev) == [ks |-> k, res |-> res, exc |-> exc, ev |-> ev]

ProjectsNamed(k, name) == { p \in k.projects : p.name = name }

RolesOf(k, user, project) ==
    { r \in k.roles : <<user, project, r>> \in k.ra }

get_domain(k, o, att) ==
    IF Fails(o, "domains.list", "", att) THEN None
    ELSE IF config.domain_name \in k.domains THEN Some(config.domain_name)
    ELSE None

\* ensure_domain once its lookup has returned `domain'
ensure_domain_found(domain, k, o, att) ==
    IF domain # None THEN Ret(k, domain, "none", {})
    ELSE IF Fails(o, "domains.create", "", att)
         THEN Ret(k, None, "KeystoneClientError", {"domains.create"})
    ELSE IF config.domain_name \in k.domains
         THEN Ret(k, get_domain(k, o, att), "none", {"domains.create"})
    ELSE Ret([k EXCEPT !.domains = @ \cup {config.domain_name}],
             Some(config.domain_name), "none", {"domains.create", "domains.created"})

ensure_domain(k, o, att) == ensure_domain_found(get_domain(k, o, att), k, o, att)

\* get_project(name) and get_project(name, domain): the lookup by name
get_project(k, project_name, o, att, qual) ==
    IF Fails(o, "projects.list", qual, att) THEN None
    ELSE IF ProjectsNamed(k, project_name) # {} THEN Some(project_name)
    ELSE None

\* create_project once ensure_domain has returned or raised (d)
create_project_in_domain(d, project_name, description, o, att) ==
    LET ev == d.ev \cup {"projects.create"}
        text == IF description = None
                THEN [fmt |-> "Project {project_name}", arg |-> project_name]
                ELSE description[1]
    IN  IF d.exc # "none" THEN Ret(d.ks, None, "KeystoneClientError", d.ev)
        ELSE IF Fails(o, "projects.create", "", att)
             THEN Ret(d.ks, None, "KeystoneClientError", ev)
        ELSE IF ProjectsNamed(d.ks, project_name) # {}
             THEN Ret(d.ks, get_project(d.ks, project_name, o, att, "after_conflict"),
                      "none", ev \cup {"projects.conflict"})
        ELSE Ret([d.ks EXCEPT !.projects = @ \cup
                      {[name |-> project_name, enabled |-> TRUE, description |-> text]}],
                 Some(project_name), "none", ev \cup {"projects.created"})

\* one attempt of create_project
create_project_attempt(k, project_name, description, o, att) ==
    create_project_in_domain(ensure_domain(k, o, att), project_name, description, o, att)

\* the retry wrapper around create_project: r is what attempt att gave
RECURSIVE create_project_from(_, _, _, _, _, _)
create_project_retry(r, project_name, description, o, att, seen) ==
    IF r.exc = "none" \/ att = GatewayMaxAttempts
    THEN [r EXCEPT !.ev = seen \cup @]
    ELSE create_project_from(r.ks, project_name, description, o, att + 1,
                             seen \cup r.ev \cup {"create_project.retry"})

create_project_from(k, project_name, description, o, att, seen) ==
    create_project_retry(create_project_attempt(k, project_name, description, o, att),
                         project_name, description, o, att, seen)

create_project(k, project_name, description, o) ==
    create_project_from(k, project_name, description, o, 1, {})

delete_project(k, project_name, o) ==
    IF get_project(k, project_name, o, 1, "") = None THEN Ret(k, FALSE, "none", {})
    ELSE IF Fails(o, "projects.delete", "", 1)
         THEN Ret(k, FALSE, "none", {"projects.delete"})
    ELSE Ret([k EXCEPT !.projects = @ \ ProjectsNamed(k, project_name),
                       !.ra = { a \in @ : a[2] # project_name }],
             TRUE, "none", {"projects.delete", "projects.deleted"})

\* a variant of the update request that flips the flag instead of setting it
UpdateEnabled_toggle(r, project_name, enabled, o) ==
    IF r.exc # "none" THEN r
    ELSE IF Fails(o, "projects.update", "", 1)
         THEN Ret(r.ks, None, "Exception", r.ev \cup {"projects.update"})
    ELSE Ret([r.ks EXCEPT !.projects =
                  { IF p.name = project_name THEN [p EXCEPT !.enabled = ~ @] ELSE p
                    : p \in @ }],
             None, "none", r.ev \cup {"projects.update"})

\* keystone.projects.update(project, enabled=...)
UpdateEnabled(r, project_name, enabled, o) ==
    IF r.exc # "none" THEN r
    ELSE IF Fails(o, "projects.update", "", 1)
         THEN Ret(r.ks, None, "Exception", r.ev \cup {"projects.update"})
    ELSE Ret([r.ks EXCEPT !.projects =
                  { IF p.name = project_name THEN [p EXCEPT !.enabled = enabled] ELSE p
                    : p \in @ }],
             None, "none", r.ev \cup {"projects.update"})

\* a variant of enable_project that creates the project it does not find
enable_project_or_create(k, project_name, o) ==
    IF get_project(k, project_name, o, 1, "") = None
    THEN create_project(k, project_name, None, o)
    ELSE UpdateEnabled(Ret(k, None, "none", {}), project_name, TRUE, o)

enable_project(k, project_name, o) ==
    IF get_project(k, project_name, o, 1, "") = None THEN Ret(k, None, "none", {})
    ELSE UpdateEnabled(Ret(k, None, "none", {}), project_name, TRUE, o)

\* a variant of disable_project that raises when it finds no project
disable_project_strict(k, project_name, o) ==
    IF get_project(k, project_name, o, 1, "") = None
    THEN Ret(k, None, "KeystoneClientError", {})
    ELSE UpdateEnabled(UpdateEnabled(Ret(k, None, "none", {}), project_name, FALSE, o),
                       project_name, FALSE, o)

disable_project(k, project_name, o) ==
    IF get_project(k, project_name, o, 1, "") = None THEN Ret(k, None, "none", {})
    ELSE UpdateEnabled(UpdateEnabled(Ret(k, None, "none", {}), project_name, FALSE, o),
                       project_name, FALSE, o)

get_user(k, username, o, att, qual) ==
    IF Fails(o, "users.list", qual, att) THEN None
    ELSE IF username \in k.users THEN Some(username)
    ELSE None

\* the creation branch of ensure_user once ensure_domain has returned or raised (d)
create_user_in_domain(d, username, o, att) ==
    LET ev == d.ev \cup {"users.create"}
    IN  IF d.exc # "none" THEN Ret(d.ks, None, "KeystoneClientError", d.ev)
        ELSE IF Fails(o, "users.create", "", att)
             THEN Ret(d.ks, None, "KeystoneClientError", ev)
        ELSE IF username \in d.ks.users
             THEN Ret(d.ks, get_user(d.ks, username, o, att, "after_conflict"), "none", ev)
        ELSE Ret([d.ks EXCEPT !.users = @ \cup {username}],
                 Some(username), "none", ev \cup {"users.created"})

\* a variant that creates the missing user whatever the configuration says
ensure_user_found_always_creates(user, k, username, o, att) ==
    IF user # None THEN Ret(k, user, "none", {})
    ELSE create_user_in_domain(ensure_domain(k, o, att), username, o, att)

\* ensure_user once its lookup has returned `user'
ensure_user_found(user, k, username, o, att) ==
    IF user # None THEN Ret(k, user, "none", {})
    ELSE IF ~ config.create_users_if_not_exist
         THEN Ret(k, None, "KeystoneClientError", {})
    ELSE create_user_in_domain(ensure_domain(k, o, att), username, o, att)

\* one attempt of ensure_user
ensure_user_attempt(k, username, o, att) ==
    ensure_user_found(get_user(k, username, o, att, ""), k, username, o, att)

\* the retry wrapper around ensure_user: r is what attempt att gave
RECURSIVE ensure_user_from(_, _, _, _, _)
ensure_user_retry(r, username, o, att, seen) ==
    IF r.exc = "none" \/ att = GatewayMaxAttempts
    THEN [r EXCEPT !.ev = seen \cup @]
    ELSE ensure_user_from(r.ks, username, o, att + 1,
                          seen \cup r.ev \cup {"ensure_user.retry"})

ensure_user_from(k, username, o, att, seen) ==
    ensure_user_retry(ensure_user_attempt(k, username, o, att), username, o, att, seen)

ensure_user(k, username, o) == ensure_user_from(k, username, o, 1, {})

\* a variant of the role lookup without the name filter on the listing
get_role_unfiltered(k, role_name, o, att) ==
    IF Fails(o, "roles.list", "", att) THEN None
    ELSE IF k.roles # {} THEN Some(CHOOSE r \in k.roles : TRUE)
    ELSE None

get_role(k, role_name, o, att) ==
    IF Fails(o, "roles.list", "", att) THEN None
    ELSE IF role_name \in k.roles THEN Some(role_name)
    ELSE None

\* ensure_role once its lookup has returned `role'
ensure_role_found(role, k, role_name, o, att) ==
    IF role # None THEN Ret(k, role, "none", {})
    ELSE IF Fails(o, "roles.create", "", att)
         THEN Ret(k, None, "KeystoneClientError", {"roles.create"})
    ELSE IF role_name \in k.roles
         THEN Ret(k, get_role(k, role_name, o, att), "none", {"roles.create"})
    ELSE Ret([k EXCEPT !.roles = @ \cup {role_name}],
             Some(role_name), "none", {"roles.create", "roles.created"})

ensure_role(k, role_name, o, att) ==
    ensure_role_found(get_role(k, role_name, o, att), k, role_name, o, att)

\* a variant of assign_role without the `except Conflict' clause: a grant
\* answered by Conflict falls into the generic handler and yields False
grant_role_conflict_fails(r, user, project, role_name, o, att) ==
    LET ev == r.ev \cup {"roles.grant"}
    IN  IF r.exc # "none" THEN Ret(r.ks, FALSE, "none", r.ev)
        ELSE IF Fails(o, "roles.grant", "", att) \/ r.res = None
                \/ user = None \/ project = None
             THEN Ret(r.ks, FALSE, "none", ev)
        ELSE IF <<user[1], project[1], role_name>> \in r.ks.ra
             THEN IF Fails(o, "roles.grant", "conflict", att)
                  THEN Ret(r.ks, FALSE, "none", ev \cup {"roles.grant.conflict"})
                  ELSE Ret(r.ks, TRUE, "none", ev \cup {"roles.grant.ok"})
        ELSE Ret([r.ks EXCEPT !.ra = @ \cup {<<user[1], project[1], role_name>>}],
                 TRUE, "none", ev \cup {"roles.grant.ok", "roles.granted"})

\* assign_role once ensure_role has returned or raised (r): the grant request
\* and the handlers around it.  A grant of a role the user holds already is
\* answered by success or by Conflict; both yield True.
grant_role(r, user, project, role_name, o, att) ==
    LET ev == r.ev \cup {"roles.grant"}
    IN  IF r.exc # "none" THEN Ret(r.ks, FALSE, "none", r.ev)
        ELSE IF Fails(o, "roles.grant", "", att) \/ r.res = None
                \/ user = None \/ project = None
             THEN Ret(r.ks, FALSE, "none", ev)
        ELSE IF <<user[1], project[1], role_name>> \in r.ks.ra
             THEN Ret(r.ks, TRUE, "none",
                      ev \cup (IF Fails(o, "roles.grant", "conflict", att)
                               THEN {"roles.grant.conflict"}
                               ELSE {"roles.grant.ok"}))
        ELSE Ret([r.ks EXCEPT !.ra = @ \cup {<<user[1], project[1], role_name>>}],
                 TRUE, "none", ev \cup {"roles.grant.ok", "roles.granted"})

\* one attempt of assign_role
assign_role_attempt(k, user, project, role_name, o, att) ==
    grant_role(ensure_role(k, role_name, o, att), user, project, role_name, o, att)

\* every exception is caught inside assign_role, so the retry wrapper around
\* it never sees one and returns what the first attempt returned
assign_role(k, user, project, role_name, o) ==
    assign_role_attempt(k, user, project, role_name, o, 1)

\* a variant of the revoke loop that gives up at the first failed revoke
RECURSIVE RevokeUntilFailure(_, _, _, _, _)
RevokeUntilFailure(r, user, project, assignments, o) ==
    IF assignments = {} THEN r
    ELSE LET role == CHOOSE x \in assignments : TRUE
         IN  IF Fails(o, "roles.revoke", role, 1)
             THEN Ret(r.ks, FALSE, "none", r.ev \cup {"roles.revoke"})
             ELSE RevokeUntilFailure(
                      Ret([r.ks EXCEPT !.ra = @ \ {<<user, project, role>>}],
                          r.res, "none", r.ev \cup {"roles.revoke", "roles.revoked"}),
                      user, project, assignments \ {role}, o)

\* the revoke loop of revoke_all_project_roles over the listed assignments
RECURSIVE RevokeEach(_, _, _, _, _)
RevokeEach(r, user, project, assignments, o) ==
    IF assignments = {} THEN r
    ELSE LET role == CHOOSE x \in assignments : TRUE
             step == IF Fails(o, "roles.revoke", role, 1)
                     THEN Ret(r.ks, FALSE, "none", r.ev \cup {"roles.revoke"})
                     ELSE Ret([r.ks EXCEPT !.ra = @ \ {<<user, project, role>>}],
                              r.res, "none", r.ev \cup {"roles.revoke", "roles.revoked"})
         IN  RevokeEach(step, user, project, assignments \ {role}, o)

\* a variant that revokes the default role only, as revoke_role would
revoke_all_project_roles_default_only(k, user, project, o) ==
    IF Fails(o, "role_assignments.list", "", 1) THEN Ret(k, FALSE, "none", {})
    ELSE IF RolesOf(k, user, project) \cap {config.default_role} = {}
         THEN Ret(k, TRUE, "none", {})
    ELSE RevokeEach(Ret(k, TRUE, "none", {}), user, project,
                    RolesOf(k, user, project) \cap {config.default_role}, o)

\* a variant that lists the assignments of the user without the project
\* filter and revokes them in every project
revoke_all_project_roles_any_project(k, user, project, o) ==
    IF Fails(o, "role_assignments.list", "", 1) THEN Ret(k, FALSE, "none", {})
    ELSE IF { a \in k.ra : a[1] = user } = {} THEN Ret(k, TRUE, "none", {})
    ELSE Ret([k EXCEPT !.ra = { a \in @ : a[1] # user }], TRUE, "none",
             {"roles.revoke", "roles.revoked"})

revoke_all_project_roles(k, user, project, o) ==
    IF Fails(o, "role_assignments.list", "", 1) THEN Ret(k, FALSE, "none", {})
    ELSE IF RolesOf(k, user, project) = {} THEN Ret(k, TRUE, "none", {})
    ELSE RevokeEach(Ret(k, TRUE, "none", {}), user, project, RolesOf(k, user, project), o)

-----------------------------------------------------------------------------
(* OpenStackClient *)

client_get_project(k, project_name, o) ==
    get_project(k, project_name, o, 1, "")

client_get_resource(k, resource_id, o) ==
    get_project(k, resource_id, o, 1, "")

\* a variant of create_project that answers a failed creation with nothing
client_project_created_quiet(r) ==
    IF r.exc # "none" \/ r.res = None
    THEN Ret(r.ks, None, "none", r.ev)
    ELSE r

\* create_project once keystone.create_project has returned or raised (r);
\* the log line that follows reads project.id, so a project that came back
\* as None raises there, inside the try
client_project_created(r) ==
    IF r.exc # "none" \/ r.res = None
    THEN Ret(r.ks, None, "KeystoneClientError", r.ev)
    ELSE r

client_create_project(k, project_name, description, o) ==
    client_project_created(create_project(k, project_name, description, o))

\* a variant that raises, as the docstring says, when nothing was deleted
client_project_deleted_strict(r) ==
    IF r.res
    THEN Ret(r.ks, "Successfully deleted project", "none", r.ev)
    ELSE Ret(r.ks, None, "KeystoneClientError", r.ev)

\* delete_resource once keystone.delete_project has returned (r)
client_project_deleted(r) ==
    Ret(r.ks, IF r.res THEN "Successfully deleted project" ELSE "Project not found",
        "none", r.ev)

client_delete_resource(k, name, o) ==
    client_project_deleted(delete_project(k, name, o))

\* a variant of the two toggles that lets the gateway's exception through
client_project_toggled_raising(r) == Ret(r.ks, r.exc = "none", r.exc, r.ev)

\* disable_project and enable_project once the gateway has returned or raised (r)
client_project_toggled(r) == Ret(r.ks, r.exc = "none", "none", r.ev)

client_disable_project(k, project_name, o) ==
    client_project_toggled(disable_project(k, project_name, o))

client_enable_project(k, project_name, o) ==
    client_project_toggled(enable_project(k, project_name, o))

\* create_association, last step: assign_role has returned a
association_granted(p, u, a) ==
    Ret(a.ks, None, IF a.res THEN "none" ELSE "KeystoneClientError",
        p.ev \cup u.ev \cup a.ev)

\* a variant that assigns another role than the configured default role
association_for_user_other_role(p, u, o) ==
    IF u.exc # "none"
    THEN Ret(u.ks, None, "KeystoneClientError", p.ev \cup u.ev)
    ELSE association_granted(p, u, assign_role(u.ks, u.res, p.res, OtherRole, o))

\* create_association once ensure_user has returned or raised (u)
association_for_user(p, u, o) ==
    IF u.exc # "none"
    THEN Ret(u.ks, None, "KeystoneClientError", p.ev \cup u.ev)
    ELSE association_granted(p, u, assign_role(u.ks, u.res, p.res, config.default_role, o))

\* create_association once the project is there, or its creation has raised (p)
association_in_project(p, username, o) ==
    IF p.exc # "none" THEN Ret(p.ks, None, "KeystoneClientError", p.ev)
    ELSE association_for_user(p, ensure_user(p.ks, username, o), o)

\* "Get or create project": found is what the lookup returned
get_or_create_project(found, k, resource_id, o) ==
    IF found = None
    THEN create_project(k, resource_id, None, o)
    ELSE Ret(k, found, "none", {})

create_association(k, username, resource_id, o) ==
    association_in_project(
        get_or_create_project(get_project(k, resource_id, o, 1, ""), k, resource_id, o),
        username, o)

\* delete_association once revoke_all_project_roles has returned (r)
association_revoked(r) ==
    Ret(r.ks, "Successfully revoked all roles",
        IF r.res THEN "none" ELSE "KeystoneClientError", r.ev)

\* a variant of delete_association that raises for a user it does not find
association_of_user_required(project, user, k, o) ==
    IF project = None THEN Ret(k, "Project not found", "none", {})
    ELSE IF user = None THEN Ret(k, None, "KeystoneClientError", {})
    ELSE association_revoked(revoke_all_project_roles(k, user[1], project[1], o))

\* a variant of delete_association that deletes the user it revokes from
association_of_user_deleted(project, user, k, o) ==
    IF project = None THEN Ret(k, "Project not found", "none", {})
    ELSE IF user = None THEN Ret(k, "User not found", "none", {})
    ELSE association_revoked(
             revoke_all_project_roles([k EXCEPT !.users = @ \ {user[1]}],
                                      user[1], project[1], o))

\* delete_association once both lookups have returned
association_of(project, user, k, o) ==
    IF project = None THEN Ret(k, "Project not found", "none", {})
    ELSE IF user = None THEN Ret(k, "User not found", "none", {})
    ELSE association_revoked(revoke_all_project_roles(k, user[1], project[1], o))

\* the user lookup is issued only when the project lookup found the project
delete_association(k, username, resource_id, o) ==
    association_of(get_project(k, resource_id, o, 1, ""),
                   get_user(k, username, o, 1, ""), k, o)

-----------------------------------------------------------------------------
(* OpenStackBackend *)

\* what a backend call hands back to its caller
Out(k, exc, cause, resId, resUsers, resList, resBool, ev, per) ==
    [ks |-> k, exc |-> exc, cause |-> cause, resId |-> resId, resUsers |-> resUsers,
     resList |-> resList, resBool |-> resBool, ev |-> ev, per |-> per]

NoPer == [u \in {} |-> {}]

Raise(k, exc, cause, ev) == Out(k, exc, cause, << >>, {}, << >>, FALSE, ev, NoPer)

\* a call that returns nothing, or an empty collection, before any request
Nothing(k) == Out(k, "none", "", << >>, {}, << >>, FALSE, {}, NoPer)

_extract_backend_id(waldur_resource) ==
    IF waldur_resource.backend_id # << >> THEN waldur_resource.backend_id
    ELSE IF waldur_resource.uuid # << >> THEN waldur_resource.uuid
    ELSE << >>

\* the description _create_resource_in_backend gives a new project
DescriptionOf(waldur_resource) ==
    IF waldur_resource.name # << >>
    THEN [fmt |-> "Waldur: {name}", arg |-> waldur_resource.name]
    ELSE IF waldur_resource.description # << >>
    THEN [fmt |-> "{description}", arg |-> waldur_resource.description]
    ELSE [fmt |-> "Waldur managed project", arg |-> << >>]

\* a variant that returns the name of the project instead of the uuid
resource_created_named(r, backend_id) ==
    IF r.exc # "none"
    THEN Raise(r.ks, "BackendError", "keystone", r.ev)
    ELSE Out(r.ks, "none", "", sanitize_for_openstack(backend_id), {}, << >>, FALSE,
             r.ev, NoPer)

\* _create_resource_in_backend once client.create_project has returned or raised (r)
resource_created(r, backend_id) ==
    IF r.exc # "none"
    THEN Raise(r.ks, "BackendError", "keystone", r.ev)
    ELSE Out(r.ks, "none", "", backend_id, {}, << >>, FALSE, r.ev, NoPer)

\* a variant without the lookup that stands before the creation
_create_resource_in_backend_unchecked(k, waldur_resource, o) ==
    IF waldur_resource.uuid = << >>
    THEN Raise(k, "BackendError", "missing_uuid", {})
    ELSE IF ~ validate_backend_id(waldur_resource.uuid)
    THEN Raise(k, "BackendError", "validation", {})
    ELSE resource_created(
             client_create_project(k, sanitize_for_openstack(waldur_resource.uuid),
                                   Some(DescriptionOf(waldur_resource)), o),
             waldur_resource.uuid)

\* a variant without the guard on the uuid and without the validation
_create_resource_in_backend_unguarded(k, waldur_resource, o) ==
    IF client_get_project(k, sanitize_for_openstack(waldur_resource.uuid), o) # None
    THEN Out(k, "none", "", waldur_resource.uuid, {}, << >>, FALSE, {}, NoPer)
    ELSE resource_created(
             client_create_project(k, sanitize_for_openstack(waldur_resource.uuid),
                                   Some(DescriptionOf(waldur_resource)), o),
             waldur_resource.uuid)

\* a variant that enables the project it finds before returning its id
_create_resource_in_backend_enabling(k, waldur_resource, o) ==
    IF waldur_resource.uuid = << >>
    THEN Raise(k, "BackendError", "missing_uuid", {})
    ELSE IF ~ validate_backend_id(waldur_resource.uuid)
    THEN Raise(k, "BackendError", "validation", {})
    ELSE IF client_get_project(k, sanitize_for_openstack(waldur_resource.uuid), o) # None
    THEN Out(client_enable_project(k, sanitize_for_openstack(waldur_resource.uuid), o).ks,
             "none", "", waldur_resource.uuid, {}, << >>, FALSE, {}, NoPer)
    ELSE resource_created(
             client_create_project(k, sanitize_for_openstack(waldur_resource.uuid),
                                   Some(DescriptionOf(waldur_resource)), o),
             waldur_resource.uuid)

_create_resource_in_backend(k, waldur_resource, o) ==
    IF waldur_resource.uuid = << >>
    THEN Raise(k, "BackendError", "missing_uuid", {})
    ELSE IF ~ validate_backend_id(waldur_resource.uuid)
    THEN Raise(k, "BackendError", "validation", {})
    ELSE IF client_get_project(k, sanitize_for_openstack(waldur_resource.uuid), o) # None
    THEN Out(k, "none", "", waldur_resource.uuid, {}, << >>, FALSE, {}, NoPer)
    ELSE resource_created(
             client_create_project(k, sanitize_for_openstack(waldur_resource.uuid),
                                   Some(DescriptionOf(waldur_resource)), o),
             waldur_resource.uuid)

\* delete_resource once client.delete_resource has returned or raised (r)
resource_deleted(r) ==
    IF r.exc # "none"
    THEN Raise(r.ks, "BackendError", "keystone", r.ev)
    ELSE Out(r.ks, "none", "", << >>, {}, << >>, FALSE, r.ev, NoPer)

\* delete_resource from the guard on, for the backend id it extracted
delete_by_backend_id(k, resource_backend_id, o) ==
    IF resource_backend_id = << >> \/ IsBlank(resource_backend_id)
    THEN Nothing(k)
    ELSE IF ~ validate_backend_id(resource_backend_id)
    THEN Raise(k, "BackendError", "validation", {})
    ELSE resource_deleted(
             client_delete_resource(k, sanitize_for_openstack(resource_backend_id), o))

delete_resource(k, waldur_resource, o) ==
    delete_by_backend_id(k, _extract_backend_id(waldur_resource), o)

\* one iteration of the loop of add_users_to_resource: create_association
\* for user_id has returned or raised (r)
user_added(acc, user_id, r) ==
    [acc EXCEPT !.ks = r.ks,
                !.resUsers = IF r.exc = "none" THEN @ \cup {user_id} ELSE @,
                !.ev = @ \cup r.ev,
                !.per = [u \in DOMAIN acc.per \cup {user_id} |->
                            IF u = user_id THEN r.ev ELSE acc.per[u]]]

\* a variant of the loop without the try around one user: the first failure ends it
RECURSIVE AddUsersLoop_abort(_, _, _, _)
AddUsersLoop_abort_after(next, user_id, project_name, rest, o) ==
    IF user_id \notin next.resUsers THEN next
    ELSE AddUsersLoop_abort(next, project_name, rest, o)

AddUsersLoop_abort(acc, project_name, order, o) ==
    IF order = << >> THEN acc
    ELSE AddUsersLoop_abort_after(
             user_added(acc, Head(order),
                        create_association(acc.ks, Head(order), project_name,
                                           For(o, Head(order)))),
             Head(order), project_name, Tail(order), o)

\* the loop of add_users_to_resource, over the set in the order it iterates
RECURSIVE AddUsersLoop(_, _, _, _)
AddUsersLoop(acc, project_name, order, o) ==
    IF order = << >> THEN acc
    ELSE AddUsersLoop(
             user_added(acc, Head(order),
                        create_association(acc.ks, Head(order), project_name,
                                           For(o, Head(order)))),
             project_name, Tail(order), o)

\* a variant without the existence check that stands before the loop
add_users_to_resource_unchecked(k, resource_backend_id, order, o) ==
    IF resource_backend_id = << >> \/ IsBlank(resource_backend_id)
    THEN Nothing(k)
    ELSE IF ~ validate_backend_id(resource_backend_id)
    THEN Raise(k, "UnboundLocalError", "validation", {})
    ELSE AddUsersLoop(Nothing(k), sanitize_for_openstack(resource_backend_id), order, o)

\* a backend id that fails validation raises ValueError inside the try; the
\* handler then formats its message with project_name, which is not bound yet
add_users_to_resource(k, resource_backend_id, order, o) ==
    IF resource_backend_id = << >> \/ IsBlank(resource_backend_id)
    THEN Nothing(k)
    ELSE IF ~ validate_backend_id(resource_backend_id)
    THEN Raise(k, "UnboundLocalError", "validation", {})
    ELSE IF client_get_resource(k, sanitize_for_openstack(resource_backend_id),
                                For(o, "")) = None
    THEN Raise(k, "BackendError", "not_found", {})
    ELSE AddUsersLoop(Nothing(k), sanitize_for_openstack(resource_backend_id), order, o)

\* one iteration of the loop of remove_users_from_resource: delete_association
\* for username has returned or raised (r)
user_removed(acc, username, r) ==
    [acc EXCEPT !.ks = r.ks,
                !.resList = IF r.exc = "none" THEN Append(@, username) ELSE @,
                !.ev = @ \cup r.ev,
                !.per = [u \in DOMAIN acc.per \cup {username} |->
                            IF u = username THEN r.ev ELSE acc.per[u]]]

RECURSIVE RemoveUsersLoop(_, _, _, _)
RemoveUsersLoop(acc, project_name, order, o) ==
    IF order = << >> THEN acc
    ELSE RemoveUsersLoop(
             user_removed(acc, Head(order),
                          delete_association(acc.ks, Head(order), project_name,
                                             For(o, Head(order)))),
             project_name, Tail(order), o)

\* a variant without the existence check that stands before the loop
remove_users_from_resource_unchecked(k, resource_backend_id, order, o) ==
    IF resource_backend_id = << >> \/ IsBlank(resource_backend_id)
    THEN Nothing(k)
    ELSE IF ~ validate_backend_id(resource_backend_id)
    THEN Raise(k, "UnboundLocalError", "validation", {})
    ELSE RemoveUsersLoop(Nothing(k), sanitize_for_openstack(resource_backend_id), order, o)

remove_users_from_resource(k, resource_backend_id, order, o) ==
    IF resource_backend_id = << >> \/ IsBlank(resource_backend_id)
    THEN Nothing(k)
    ELSE IF ~ validate_backend_id(resource_backend_id)
    THEN Raise(k, "UnboundLocalError", "validation", {})
    ELSE IF client_get_resource(k, sanitize_for_openstack(resource_backend_id),
                                For(o, "")) = None
    THEN Nothing(k)
    ELSE RemoveUsersLoop(Nothing(k), sanitize_for_openstack(resource_backend_id), order, o)

\* downscale_resource and restore_resource return what the client returned (r)
resource_toggled(r) == Out(r.ks, "none", "", << >>, {}, << >>, r.res, r.ev, NoPer)

downscale_resource(k, resource_backend_id, o) ==
    resource_toggled(client_disable_project(k, sanitize_for_openstack(resource_backend_id), o))

pause_resource(k, resource_backend_id, o) ==
    downscale_resource(k, resource_backend_id, o)

restore_resource(k, resource_backend_id, o) ==
    resource_toggled(client_enable_project(k, sanitize_for_openstack(resource_backend_id), o))

\* a variant of the metadata that reports every project as enabled
project_metadata_always_enabled(project) ==
    [project_id |-> project.name, project_name |-> project.name,
     domain |-> config.domain_name, enabled |-> TRUE,
     description |-> project.description]

\* the metadata dictionary of a project, as a function from its keys
project_metadata(project) ==
    [project_id |-> project.name, project_name |-> project.name,
     domain |-> config.domain_name, enabled |-> project.enabled,
     description |-> project.description]

\* the empty dictionary
EmptyMapping == [key \in {} |-> None]

\* OpenStackClient.get_project_metadata: {} when the lookup finds nothing or fails
get_project_metadata(k, project_name, o) ==
    IF get_project(k, project_name, o, 1, "") = None
    THEN EmptyMapping
    ELSE project_metadata(CHOOSE p \in ProjectsNamed(k, project_name) : TRUE)

\* OpenStackBackend.get_resource_metadata
get_resource_metadata(k, resource_backend_id, o) ==
    get_project_metadata(k, sanitize_for_openstack(resource_backend_id), o)

\* a variant of the listing that names every user the service knows
list_resource_users_all(k, resource_id, o) ==
    IF get_project(k, resource_id, o, 1, "") = None THEN {}
    ELSE k.users

\* OpenStackClient.list_resource_users: the names of the users that hold a
\* role assignment in the project named resource_id; a failed project lookup
\* or listing gives no name, a failed users.get leaves that user out.  The
\* code returns the names as a list without repetition, in no given order.
list_resource_users(k, resource_id, o) ==
    IF get_project(k, resource_id, o, 1, "") = None THEN {}
    ELSE IF Fails(o, "role_assignments.list", "", 1) THEN {}
    ELSE { a[1] : a \in { b \in k.ra : b[2] = resource_id
                                       /\ ~ Fails(For(o, b[1]), "users.get", "", 1) } }

-----------------------------------------------------------------------------
(* Health checks *)

\* str.startswith(("http://", "https://")) on the auth_url values in use
HttpUrls == { "https://keystone:5000/v3", "http://keystone:5000/v3" }

\* OpenStackConfig.validate: TRUE when it returns, FALSE when it raises ValueError
validate(c) ==
    /\ c.auth_url \in HttpUrls
    /\ c.username # "" /\ c.password # ""
    /\ c.interface \in {"public", "internal", "admin"}
    /\ ~ (c.max_retry_attempts < 0)
    /\ ~ (c.retry_delay_seconds < 0)

\* KeystoneClient.get_token under its retry wrapper: the token, nothing, or
\* KeystoneClientError once the last attempt has failed
RECURSIVE get_token_from(_, _)
get_token_from(o, att) ==
    IF Fails(o, "get_token", "", att)
    THEN IF att = GatewayMaxAttempts
         THEN [res |-> None, exc |-> "KeystoneClientError"]
         ELSE get_token_from(o, att + 1)
    ELSE IF Fails(o, "get_token", "none", att) THEN [res |-> None, exc |-> "none"]
    ELSE [res |-> Some("token"), exc |-> "none"]

get_token(o) == get_token_from(o, 1)

\* OpenStackClient.ping once get_token has returned or raised (t): every
\* exception is caught and answered by False
client_pinged(t) == t.exc = "none" /\ t.res # None

client_ping(o) == client_pinged(get_token(o))

\* what a read-only backend call hands back
Read(k, resBool, exc) == [ks |-> k, resBool |-> resBool, exc |-> exc]

\* OpenStackBackend.ping: client.ping raises nothing, so the except clause,
\* the only place that looks at raise_exception, is never entered
ping(k, raise_exception, o) == Read(k, client_ping(o), "none")

client_get_domain(k, o) == get_domain(k, o, 1)

client_get_role(k, role_name, o) == get_role(k, role_name, o, 1)

\* diagnostics before its first check
DiagnosticsStart(k) == [ks |-> k, passed |-> TRUE, checks |-> << >>, warned |-> {}]

\* check 1: ping(raise_exception=True)
check_connectivity(d, o) ==
    [d EXCEPT !.checks = Append(@, "ping"),
              !.passed = @ /\ ping(d.ks, TRUE, o).resBool]

\* a variant of check 2 that counts a missing domain as a failed check
check_domain_strict(d, o) ==
    [d EXCEPT !.checks = Append(@, "domain"),
              !.passed = @ /\ client_get_domain(d.ks, o) # None]

\* check 2: the domain is looked up; nothing found is a warning
check_domain(d, o) ==
    [d EXCEPT !.checks = Append(@, "domain"),
              !.warned = IF client_get_domain(d.ks, o) = None THEN @ \cup {"domain"} ELSE @]

\* a variant of check 3 that creates the role it does not find
check_role_ensuring(d, c, o) ==
    [d EXCEPT !.checks = Append(@, "role"),
              !.ks = ensure_role(d.ks, c.default_role, o, 1).ks]

\* check 3: the default role is looked up; nothing found is a warning
check_role(d, c, o) ==
    [d EXCEPT !.checks = Append(@, "role"),
              !.warned = IF client_get_role(d.ks, c.default_role, o) = None
                         THEN @ \cup {"role"} ELSE @]

\* check 4: config.validate()
check_config(d, c) ==
    [d EXCEPT !.checks = Append(@, "config"), !.passed = @ /\ validate(c)]

\* OpenStackBackend.diagnostics
diagnostics(k, c, o) ==
    check_config(check_role(check_domain(check_connectivity(DiagnosticsStart(k), o), o),
                            c, o), c)

\* OpenStackBackend.list_components
list_components(c) == c.backend_components

-----------------------------------------------------------------------------
(* Fault points each backend call can reach *)

CreateFaults ==
    FaultChoices({""}, { <<"projects.list", "">>, <<"projects.list", "after_conflict">>,
                         <<"projects.create", "">>,
                         <<"domains.list", "">>, <<"domains.create", "">> })

DeleteFaults ==
    FaultChoices({""}, { <<"projects.list", "">>, <<"projects.delete", "">> })

ToggleFaults ==
    FaultChoices({""}, { <<"projects.list", "">>, <<"projects.update", "">> })

\* the requests create_association can issue for one user
AssociationApis ==
    { <<"projects.list", "">>, <<"projects.list", "after_conflict">>,
      <<"projects.create", "">>,
      <<"domains.list", "">>, <<"domains.create", "">>,
      <<"users.list", "">>, <<"users.list", "after_conflict">>,
      <<"users.create", "">>,
      <<"roles.list", "">>, <<"roles.create", "">>,
      <<"roles.grant", "">>, <<"roles.grant", "conflict">> }

AddFaults(user_ids) ==
    FaultChoices({""}, { <<"projects.list", "">> })
    \cup FaultChoices(user_ids, AssociationApis)

RemoveFaults(usernames) ==
    FaultChoices({""}, { <<"projects.list", "">> })
    \cup FaultChoices(usernames,
            { <<"projects.list", "">>, <<"users.list", "">>,
              <<"role_assignments.list", "">>,
              <<"roles.revoke", "_member_">>, <<"roles.revoke", OtherRole>> })

\* the backend id passes the guards that stand before the first request
Usable(backend_id) ==
    /\ ~ (backend_id = << >> \/ IsBlank(backend_id))
    /\ validate_backend_id(backend_id)

\* the orders in which a loop can iterate over a set
RECURSIVE Orders(_)
Orders(S) ==
    IF S = {} THEN { << >> }
    ELSE UNION { { <<x>> \o t : t \in Orders(S \ {x}) } : x \in S }

-----------------------------------------------------------------------------
(* State machine: one backend call at a time, then the caller takes the result *)

NoResource == [uuid |-> << >>, backend_id |-> << >>, name |-> << >>, description |-> << >>]

ById(backend_id) == [NoResource EXCEPT !.backend_id = backend_id]

EmptyService == [domains |-> {}, projects |-> {}, users |-> {}, roles |-> {}, ra |-> {}]

Idle ==
    [op |-> "idle", resource |-> NoResource, users |-> {}, order |-> << >>, o |-> {},
     pre |-> EmptyService,
     exc |-> "none", cause |-> "", resId |-> << >>, resUsers |-> {}, resList |-> << >>,
     resBool |-> FALSE, ev |-> {}, per |-> NoPer]

Done(op, resource, order, o, out) ==
    [op |-> op, resource |-> resource, users |-> { order[i] : i \in 1..Len(order) },
     order |-> order, o |-> o, pre |-> ks,
     exc |-> out.exc, cause |-> out.cause, resId |-> out.resId, resUsers |-> out.resUsers,
     resList |-> out.resList, resBool |-> out.resBool, ev |-> out.ev, per |-> out.per]

NoCall ==
    [pc |-> "idle", backend_id |-> << >>, todo |-> {}, added |-> {}, exc |-> "none",
     ev |-> {}]

\* OpenStackConfig with its defaults, the settings a deployment must give,
\* and the backend_components the backend was constructed with
DefaultConfig ==
    [domain_name |-> "Default", default_role |-> "_member_",
     create_users_if_not_exist |-> TRUE,
     auth_url |-> "https://keystone:5000/v3", username |-> "admin",
     password |-> "secret", interface |-> "public",
     max_retry_attempts |-> 2, retry_delay_seconds |-> 5,
     backend_components |-> << >>]

\* no read-only call under observation
NoRead ==
    [op |-> "idle", arg |-> << >>, raise_exception |-> FALSE, o |-> {},
     pre |-> EmptyService, exc |-> "none", resBool |-> FALSE, checks |-> << >>,
     warned |-> {}, metadata |-> EmptyMapping, listed |-> << >>]

\* the characters of the names given to the sanitizer: a letter, a digit,
\* the space, the three punctuation marks it keeps and one it removes
SanitizeAlphabet == { "a", "1", " ", "_", "-", ".", "!" }

SanitizeInputs == UNION { [1..n -> SanitizeAlphabet] : n \in 0..MaxLen }

\* no call of the sanitizer under observation
NoSanitize == [pc |-> "idle", input |-> << >>, once |-> << >>, twice |-> << >>]

\* the callers that can run _create_resource_in_backend at the same time
Callers == { 1, 2 }

\* a caller outside _create_resource_in_backend
IdleCaller ==
    [pc |-> "idle", resource |-> NoResource, observed |-> "", result |-> << >>,
     exc |-> "none"]

NoRace == [c \in Callers |-> IdleCaller]

\* the end-to-end scenario before its first step
NoLifecycle ==
    [step |-> 0, resource |-> NoResource, exc |-> "none", created |-> << >>,
     added |-> {}, removed |-> << >>, listed |-> << >>, absent |-> FALSE,
     metadata |-> EmptyMapping]

Init ==
    /\ ks = EmptyService
    /\ config = DefaultConfig
    /\ last = Idle
    /\ au = NoCall
    /\ rt = NoRetry
    /\ lc = NoLifecycle
    /\ cr = NoRace
    /\ sz = NoSanitize
    /\ ro = NoRead

CreateResource ==
    /\ last.op = "idle"
    /\ \E uuid \in Uuids, name \in ResourceNames, description \in ResourceDescriptions :
       \E o \in OraclesIf(validate_backend_id(uuid), CreateFaults) :
       \E waldur_resource \in { [uuid |-> uuid, backend_id |-> << >>, name |-> name,
                                 description |-> description] } :
       \E out \in { _create_resource_in_backend(ks, waldur_resource, o) } :
          /\ ks' = out.ks
          /\ last' = Done("create", waldur_resource, << >>, o, out)
    /\ UNCHANGED <<config, au, rt, lc, cr, sz, ro>>

DeleteResource ==
    /\ last.op = "idle"
    /\ \E backend_id \in BackendIds, uuid \in {IdEmpty, IdPlain} :
       \E waldur_resource \in { [uuid |-> uuid, backend_id |-> backend_id, name |-> << >>,
                                 description |-> << >>] } :
       \E o \in OraclesIf(Usable(_extract_backend_id(waldur_resource)), DeleteFaults) :
       \E out \in { delete_resource(ks, waldur_resource, o) } :
          /\ ks' = out.ks
          /\ last' = Done("delete", waldur_resource, << >>, o, out)
    /\ UNCHANGED <<config, au, rt, lc, cr, sz, ro>>

AddUsers ==
    /\ last.op = "idle"
    /\ \E backend_id \in BackendIds, user_ids \in SUBSET Usernames :
       \E order \in Orders(user_ids),
          o \in OraclesIf(Usable(backend_id), AddFaults(user_ids)) :
       \E out \in { add_users_to_resource(ks, backend_id, order, o) } :
          /\ ks' = out.ks
          /\ last' = Done("add_users", ById(backend_id), order, o, out)
    /\ UNCHANGED <<config, au, rt, lc, cr, sz, ro>>

RemoveUsers ==
    /\ last.op = "idle"
    /\ \E backend_id \in BackendIds, usernames \in SUBSET Usernames :
       \E order \in Orders(usernames),
          o \in OraclesIf(Usable(backend_id), RemoveFaults(usernames)) :
       \E out \in { remove_users_from_resource(ks, backend_id, order, o) } :
          /\ ks' = out.ks
          /\ last' = Done("remove_users", ById(backend_id), order, o, out)
    /\ UNCHANGED <<config, au, rt, lc, cr, sz, ro>>

DownscaleResource ==
    /\ last.op = "idle"
    /\ \E backend_id \in BackendIds, o \in Oracles(ToggleFaults) :
       \E out \in { downscale_resource(ks, backend_id, o) } :
          /\ ks' = out.ks
          /\ last' = Done("downscale", ById(backend_id), << >>, o, out)
    /\ UNCHANGED <<config, au, rt, lc, cr, sz, ro>>

PauseResource ==
    /\ last.op = "idle"
    /\ \E backend_id \in BackendIds, o \in Oracles(ToggleFaults) :
       \E out \in { pause_resource(ks, backend_id, o) } :
          /\ ks' = out.ks
          /\ last' = Done("pause", ById(backend_id), << >>, o, out)
    /\ UNCHANGED <<config, au, rt, lc, cr, sz, ro>>

RestoreResource ==
    /\ last.op = "idle"
    /\ \E backend_id \in BackendIds, o \in Oracles(ToggleFaults) :
       \E out \in { restore_resource(ks, backend_id, o) } :
          /\ ks' = out.ks
          /\ last' = Done("restore", ById(backend_id), << >>, o, out)
    /\ UNCHANGED <<config, au, rt, lc, cr, sz, ro>>

\* an administrator outside the engine grants another role in an existing project
ExternalGrant ==
    /\ last.op = "idle"
    /\ \E user \in ks.users, p \in ks.projects :
          ks' = [ks EXCEPT !.roles = @ \cup {OtherRole},
                           !.ra = @ \cup {<<user, p.name, OtherRole>>}]
    /\ UNCHANGED <<config, last, au, rt, lc, cr, sz, ro>>

\* the caller has the result; the engine waits for the next call
ReturnToCaller ==
    /\ last.op # "idle"
    /\ last' = Idle
    /\ UNCHANGED <<ks, config, au, rt, lc, cr, sz, ro>>

Next ==
    \/ CreateResource
    \/ DeleteResource
    \/ AddUsers
    \/ RemoveUsers
    \/ DownscaleResource
    \/ PauseResource
    \/ RestoreResource
    \/ ExternalGrant
    \/ ReturnToCaller

Spec == Init /\ [][Next]_vars

-----------------------------------------------------------------------------
(* add_users_to_resource step by step, while a second caller of the same   *)
(* identity service creates and deletes the project                        *)

SharedResource ==
    [uuid |-> IdPlain, backend_id |-> IdPlain, name |-> << >>, description |-> << >>]

\* the call up to its loop: the guards and the existence check
AddUsersBegin ==
    /\ au.pc = "idle"
    /\ \E user_ids \in SUBSET Usernames :
          au' = IF client_get_resource(ks, sanitize_for_openstack(IdPlain), {}) = None
                THEN [NoCall EXCEPT !.pc = "done", !.backend_id = IdPlain,
                                    !.exc = "BackendError"]
                ELSE [NoCall EXCEPT !.pc = "loop", !.backend_id = IdPlain,
                                    !.todo = user_ids]
    /\ UNCHANGED <<ks, config, last, rt, lc, cr, sz, ro>>

\* one iteration of the loop
AddUsersStep ==
    /\ au.pc = "loop"
    /\ \E user_id \in au.todo :
       \E o \in Oracles(FaultChoices({user_id}, AssociationApis)) :
       \E out \in { AddUsersLoop(
                        Out(ks, "none", "", << >>, au.added, << >>, FALSE, au.ev, NoPer),
                        sanitize_for_openstack(au.backend_id), << user_id >>, o) } :
          /\ ks' = out.ks
          /\ au' = [au EXCEPT !.todo = @ \ {user_id}, !.added = out.resUsers,
                              !.ev = out.ev]
    /\ UNCHANGED <<config, last, rt, lc, cr, sz, ro>>

\* the loop is over: the call returns the users it added
AddUsersEnd ==
    /\ au.pc = "loop"
    /\ au.todo = {}
    /\ au' = [au EXCEPT !.pc = "done"]
    /\ UNCHANGED <<ks, config, last, rt, lc, cr, sz, ro>>

AddUsersReturn ==
    /\ au.pc = "done"
    /\ au' = NoCall
    /\ UNCHANGED <<ks, config, last, rt, lc, cr, sz, ro>>

OtherCreate ==
    /\ ks' = _create_resource_in_backend(ks, SharedResource, {}).ks
    /\ ks' # ks
    /\ UNCHANGED <<config, last, au, rt, lc, cr, sz, ro>>

OtherDelete ==
    /\ ks' = delete_resource(ks, SharedResource, {}).ks
    /\ ks' # ks
    /\ UNCHANGED <<config, last, au, rt, lc, cr, sz, ro>>

NextConc ==
    \/ AddUsersBegin
    \/ AddUsersStep
    \/ AddUsersEnd
    \/ AddUsersReturn
    \/ OtherCreate
    \/ OtherDelete

SpecConc == Init /\ [][NextConc]_vars

-----------------------------------------------------------------------------
(* A caller of an operation wrapped by retry_on_exception *)

\* the wrapper is entered; with max_attempts = 0 its loop has no iteration
\* and the line after the loop raises RuntimeError
RetryCall ==
    /\ rt.pc = "idle"
    /\ \E max_attempts \in 0..MaxRetryAttempts, base_delay \in BaseDelays,
          exponential_base \in ExponentialBases, max_delay \in MaxDelays,
          exceptions \in RetryableSets :
          rt' = [NoRetry EXCEPT
                    !.pc = IF max_attempts = 0 THEN "raised" ELSE "try",
                    !.max_attempts = max_attempts, !.base_delay = base_delay,
                    !.exponential_base = exponential_base, !.max_delay = max_delay,
                    !.exceptions = exceptions, !.attempt = 1,
                    !.raised = IF max_attempts = 0
                               THEN Some([class |-> "RuntimeError", n |-> 0])
                               ELSE None]
    /\ UNCHANGED <<ks, config, last, au, lc, cr, sz, ro>>

\* one iteration of the loop: the operation is invoked and returns or raises
RetryAttempt ==
    /\ rt.pc = "try"
    /\ \E call \in Invocations(rt.attempt) :
          rt' = retry_after([rt EXCEPT !.calls = Append(@, call)], call)
    /\ UNCHANGED <<ks, config, last, au, lc, cr, sz, ro>>

\* time.sleep(delay), then the next iteration
RetrySleep ==
    /\ rt.pc = "sleep"
    /\ rt' = [rt EXCEPT !.pc = "try",
                        !.slept = Append(@, retry_delay(rt, rt.attempt)),
                        !.attempt = @ + 1]
    /\ UNCHANGED <<ks, config, last, au, lc, cr, sz, ro>>

\* the caller has the result or the exception
RetryDone ==
    /\ rt.pc \in {"returned", "raised"}
    /\ rt' = NoRetry
    /\ UNCHANGED <<ks, config, last, au, lc, cr, sz, ro>>

NextRetry ==
    \/ RetryCall
    \/ RetryAttempt
    \/ RetrySleep
    \/ RetryDone

SpecRetry == Init /\ [][NextRetry]_vars

\* the wrapper runs on the calling thread: an attempt that is due is made
\* and returns or raises, and a sleep that has begun ends
SpecRetryFair == SpecRetry /\ WF_vars(RetryAttempt) /\ WF_vars(RetrySleep)

-----------------------------------------------------------------------------
(* The end-to-end scenario of one resource on a fault-free identity        *)
(* service, while the engine serves another resource between its steps     *)

ScenarioResource(name, description) ==
    [uuid |-> IdScenario, backend_id |-> << >>, name |-> name, description |-> description]

\* event 1: the order is created
LcCreate ==
    /\ lc.step = 0
    /\ \E name \in ResourceNames, description \in ResourceDescriptions :
       \E out \in { _create_resource_in_backend(ks, ScenarioResource(name, description), {}) } :
          /\ ks' = out.ks
          /\ lc' = [lc EXCEPT !.step = 1, !.resource = ScenarioResource(name, description),
                              !.exc = out.exc, !.created = out.resId]
    /\ UNCHANGED <<config, last, au, rt, cr, sz, ro>>

\* event 2: alice and bob are added, under the identifier create returned
LcAddUsers ==
    /\ lc.step = 1
    /\ \E order \in Orders({"alice", "bob"}) :
       \E out \in { add_users_to_resource(ks, lc.created, order, {}) } :
          /\ ks' = out.ks
          /\ lc' = [lc EXCEPT !.step = 2, !.added = out.resUsers,
                              !.exc = IF @ = "none" THEN out.exc ELSE @]
    /\ UNCHANGED <<config, last, au, rt, cr, sz, ro>>

\* event 3: alice is removed
LcRemoveUsers ==
    /\ lc.step = 2
    /\ \E out \in { remove_users_from_resource(ks, lc.created, << "alice" >>, {}) } :
          /\ ks' = out.ks
          /\ lc' = [lc EXCEPT !.step = 3, !.removed = out.resList,
                              !.exc = IF @ = "none" THEN out.exc ELSE @]
    /\ UNCHANGED <<config, last, au, rt, cr, sz, ro>>

\* the users of the project are listed; list(usernames) fixes some order
LcListUsers ==
    /\ lc.step = 3
    /\ \E listed \in Orders(list_resource_users(ks, lc.created, {})) :
          lc' = [lc EXCEPT !.step = 4, !.listed = listed]
    /\ UNCHANGED <<ks, config, last, au, rt, cr, sz, ro>>

\* event 4: the resource, now carrying its backend id, is deleted
LcDelete ==
    /\ lc.step = 4
    /\ \E out \in { delete_resource(ks, [lc.resource EXCEPT !.backend_id = lc.created], {}) } :
          /\ ks' = out.ks
          /\ lc' = [lc EXCEPT !.step = 5,
                              !.exc = IF @ = "none" THEN out.exc ELSE @]
    /\ UNCHANGED <<config, last, au, rt, cr, sz, ro>>

\* the project is looked up and the metadata of the resource is read
LcReadBack ==
    /\ lc.step = 5
    /\ lc' = [lc EXCEPT !.step = 6,
                        !.absent = (client_get_project(ks, lc.created, {}) = None),
                        !.metadata = get_resource_metadata(ks, lc.created, {})]
    /\ UNCHANGED <<ks, config, last, au, rt, cr, sz, ro>>

\* the scenario starts again with the service as it is now
LcAgain ==
    /\ lc.step = 6
    /\ lc' = NoLifecycle
    /\ UNCHANGED <<ks, config, last, au, rt, cr, sz, ro>>

\* between the steps the engine serves the resource "a 1"
LcOtherCreate ==
    /\ \E out \in { _create_resource_in_backend(ks, [NoResource EXCEPT !.uuid = IdPlain], {}) } :
          ks' = out.ks
    /\ UNCHANGED <<config, last, au, rt, lc, cr, sz, ro>>

LcOtherAddUsers ==
    /\ \E user_ids \in SUBSET Usernames :
       \E order \in Orders(user_ids) :
       \E out \in { add_users_to_resource(ks, IdPlain, order, {}) } :
          /\ out.exc = "none"
          /\ ks' = out.ks
    /\ UNCHANGED <<config, last, au, rt, lc, cr, sz, ro>>

LcOtherRemoveUsers ==
    /\ \E usernames \in SUBSET Usernames :
       \E order \in Orders(usernames) :
       \E out \in { remove_users_from_resource(ks, IdPlain, order, {}) } :
          ks' = out.ks
    /\ UNCHANGED <<config, last, au, rt, lc, cr, sz, ro>>

LcOtherDelete ==
    /\ \E out \in { delete_resource(ks, ById(IdPlain), {}) } :
          ks' = out.ks
    /\ UNCHANGED <<config, last, au, rt, lc, cr, sz, ro>>

NextLifecycle ==
    \/ LcCreate
    \/ LcAddUsers
    \/ LcRemoveUsers
    \/ LcListUsers
    \/ LcDelete
    \/ LcReadBack
    \/ LcAgain
    \/ LcOtherCreate
    \/ LcOtherAddUsers
    \/ LcOtherRemoveUsers
    \/ LcOtherDelete

SpecLifecycle == Init /\ [][NextLifecycle]_vars

-----------------------------------------------------------------------------
(* Two callers in _create_resource_in_backend at the same time, one request *)
(* of a caller per step, on a fault-free identity service                   *)

RaceUuids == { IdPlain, IdScenario }

RaceName(c) == sanitize_for_openstack(cr[c].resource.uuid)

\* a variant of the Conflict handler of create_project that raises
create_conflict_raises(caller) ==
    [caller EXCEPT !.pc = "returned", !.exc = "BackendError"]

\* except keystone_exceptions.Conflict: the project is looked up next
create_conflict(caller) == [caller EXCEPT !.pc = "fallback"]

\* the project keystone.projects.create stores
NewProject(project_name, description) ==
    [name |-> project_name, enabled |-> TRUE, description |-> description]

\* the call is made; the uuid passes the guards and the project is looked up
RaceLookup(c) ==
    /\ cr[c].pc = "idle"
    /\ \E uuid \in RaceUuids, name \in ResourceNames, description \in ResourceDescriptions :
       \E waldur_resource \in { [uuid |-> uuid, backend_id |-> << >>, name |-> name,
                                 description |-> description] } :
          cr' = [cr EXCEPT ![c] =
                    IF client_get_project(ks, sanitize_for_openstack(uuid), {}) # None
                    THEN [IdleCaller EXCEPT !.pc = "returned", !.resource = waldur_resource,
                                            !.observed = "found", !.result = uuid]
                    ELSE [IdleCaller EXCEPT !.pc = "get_domain", !.resource = waldur_resource,
                                            !.observed = "not_found"]]
    /\ UNCHANGED <<ks, config, last, au, rt, lc, sz, ro>>

\* ensure_domain looks the domain up
RaceGetDomain(c) ==
    /\ cr[c].pc = "get_domain"
    /\ cr' = [cr EXCEPT ![c].pc = IF get_domain(ks, {}, 1) # None
                                  THEN "create_project" ELSE "create_domain"]
    /\ UNCHANGED <<ks, config, last, au, rt, lc, sz, ro>>

\* ensure_domain creates the domain; a Conflict is answered by a lookup,
\* which finds the domain the other caller created
RaceCreateDomain(c) ==
    /\ cr[c].pc = "create_domain"
    /\ ks' = [ks EXCEPT !.domains = @ \cup {config.domain_name}]
    /\ cr' = [cr EXCEPT ![c].pc = "create_project"]
    /\ UNCHANGED <<config, last, au, rt, lc, sz, ro>>

\* keystone.projects.create: the service refuses a second project of the name
RaceCreateProject(c) ==
    /\ cr[c].pc = "create_project"
    /\ IF ProjectsNamed(ks, RaceName(c)) # {}
       THEN /\ cr' = [cr EXCEPT ![c] = create_conflict(@)]
            /\ UNCHANGED ks
       ELSE /\ ks' = [ks EXCEPT !.projects = @ \cup
                        {NewProject(RaceName(c), DescriptionOf(cr[c].resource))}]
            /\ cr' = [cr EXCEPT ![c].pc = "returned", ![c].result = cr[c].resource.uuid]
    /\ UNCHANGED <<config, last, au, rt, lc, sz, ro>>

\* the lookup after the Conflict; a project that came back as None makes
\* the client raise, and the backend raises BackendError
RaceFallback(c) ==
    /\ cr[c].pc = "fallback"
    /\ cr' = [cr EXCEPT ![c] =
                IF get_project(ks, RaceName(c), {}, 1, "after_conflict") # None
                THEN [cr[c] EXCEPT !.pc = "returned", !.result = cr[c].resource.uuid]
                ELSE [cr[c] EXCEPT !.pc = "returned", !.exc = "BackendError"]]
    /\ UNCHANGED <<ks, config, last, au, rt, lc, sz, ro>>

\* both callers have their answers
RaceReturn ==
    /\ \A c \in Callers : cr[c].pc = "returned"
    /\ cr' = NoRace
    /\ UNCHANGED <<ks, config, last, au, rt, lc, sz, ro>>

\* while no create runs, the engine deletes a resource
RaceDelete ==
    /\ cr = NoRace
    /\ \E uuid \in RaceUuids :
       \E out \in { delete_resource(ks, ById(uuid), {}) } :
          /\ "projects.deleted" \in out.ev
          /\ ks' = out.ks
    /\ UNCHANGED <<config, last, au, rt, lc, cr, sz, ro>>

NextRace ==
    \/ \E c \in Callers : RaceLookup(c)
    \/ \E c \in Callers : RaceGetDomain(c)
    \/ \E c \in Callers : RaceCreateDomain(c)
    \/ \E c \in Callers : RaceCreateProject(c)
    \/ \E c \in Callers : RaceFallback(c)
    \/ RaceReturn
    \/ RaceDelete

SpecRace == Init /\ [][NextRace]_vars

-----------------------------------------------------------------------------
(* The engine serving several resources, one call after the other, on a    *)
(* fault-free identity service                                             *)

PairIds == { IdPlain, IdUnder, IdScenario }

PairCreate ==
    /\ last.op = "idle"
    /\ \E uuid \in PairIds, name \in ResourceNames :
       \E waldur_resource \in { [NoResource EXCEPT !.uuid = uuid, !.name = name] } :
       \E out \in { _create_resource_in_backend(ks, waldur_resource, {}) } :
          /\ ks' = out.ks
          /\ last' = Done("create", waldur_resource, << >>, {}, out)
    /\ UNCHANGED <<config, au, rt, lc, cr, sz, ro>>

PairDelete ==
    /\ last.op = "idle"
    /\ \E backend_id \in PairIds :
       \E out \in { delete_resource(ks, ById(backend_id), {}) } :
          /\ ks' = out.ks
          /\ last' = Done("delete", ById(backend_id), << >>, {}, out)
    /\ UNCHANGED <<config, au, rt, lc, cr, sz, ro>>

PairAddUsers ==
    /\ last.op = "idle"
    /\ \E backend_id \in PairIds, user_ids \in SUBSET Usernames :
       \E order \in Orders(user_ids) :
       \E out \in { add_users_to_resource(ks, backend_id, order, {}) } :
          /\ ks' = out.ks
          /\ last' = Done("add_users", ById(backend_id), order, {}, out)
    /\ UNCHANGED <<config, au, rt, lc, cr, sz, ro>>

PairRemoveUsers ==
    /\ last.op = "idle"
    /\ \E backend_id \in PairIds, usernames \in SUBSET Usernames :
       \E order \in Orders(usernames) :
       \E out \in { remove_users_from_resource(ks, backend_id, order, {}) } :
          /\ ks' = out.ks
          /\ last' = Done("remove_users", ById(backend_id), order, {}, out)
    /\ UNCHANGED <<config, au, rt, lc, cr, sz, ro>>

PairDisable ==
    /\ last.op = "idle"
    /\ \E backend_id \in PairIds :
       \E out \in { downscale_resource(ks, backend_id, {}) } :
          /\ ks' = out.ks
          /\ last' = Done("downscale", ById(backend_id), << >>, {}, out)
    /\ UNCHANGED <<config, au, rt, lc, cr, sz, ro>>

PairEnable ==
    /\ last.op = "idle"
    /\ \E backend_id \in PairIds :
       \E out \in { restore_resource(ks, backend_id, {}) } :
          /\ ks' = out.ks
          /\ last' = Done("restore", ById(backend_id), << >>, {}, out)
    /\ UNCHANGED <<config, au, rt, lc, cr, sz, ro>>

NextPair ==
    \/ PairCreate
    \/ PairDelete
    \/ PairAddUsers
    \/ PairRemoveUsers
    \/ PairDisable
    \/ PairEnable
    \/ ReturnToCaller

SpecPair == Init /\ [][NextPair]_vars

-----------------------------------------------------------------------------
(* sanitize_for_openstack applied to a name, and to its own result *)

SanitizeCall ==
    /\ sz.pc = "idle"
    /\ \E name \in SanitizeInputs :
          sz' = [NoSanitize EXCEPT !.pc = "once", !.input = name,
                                   !.once = sanitize_for_openstack(name)]
    /\ UNCHANGED <<ks, config, last, au, rt, lc, cr, ro>>

SanitizeAgain ==
    /\ sz.pc = "once"
    /\ sz' = [sz EXCEPT !.pc = "twice", !.twice = sanitize_for_openstack(sz.once)]
    /\ UNCHANGED <<ks, config, last, au, rt, lc, cr, ro>>

SanitizeDone ==
    /\ sz.pc = "twice"
    /\ sz' = NoSanitize
    /\ UNCHANGED <<ks, config, last, au, rt, lc, cr, ro>>

NextSanitize ==
    \/ SanitizeCall
    \/ SanitizeAgain
    \/ SanitizeDone

SpecSanitize == Init /\ [][NextSanitize]_vars

-----------------------------------------------------------------------------
(* The read-only calls of the backend, between calls that change the       *)
(* identity service and edits of the configuration object                  *)

\* the configuration as constructed, and with one attribute assigned since
Configs ==
    { DefaultConfig,
      [DefaultConfig EXCEPT !.auth_url = "keystone:5000/v3"],
      [DefaultConfig EXCEPT !.password = ""],
      [DefaultConfig EXCEPT !.interface = "private"],
      [DefaultConfig EXCEPT !.max_retry_attempts = -1],
      [DefaultConfig EXCEPT !.backend_components = << "vcpu", "ram" >>] }

PingFaults == FaultChoices({""}, { <<"get_token", "">>, <<"get_token", "none">> })

DiagnosticsFaults ==
    PingFaults \cup FaultChoices({""}, { <<"domains.list", "">>, <<"roles.list", "">> })

ListFaults ==
    FaultChoices({""}, { <<"projects.list", "">>, <<"role_assignments.list", "">> })
    \cup FaultChoices(Usernames, { <<"users.get", "">> })

\* the observation of a read-only call made in the current state
Called(op, arg, o) == [NoRead EXCEPT !.op = op, !.arg = arg, !.o = o, !.pre = ks]

Ping ==
    /\ ro.op = "idle"
    /\ \E raise_exception \in BOOLEAN, o \in Oracles(PingFaults) :
       \E out \in { ping(ks, raise_exception, o) } :
          /\ ks' = out.ks
          /\ ro' = [Called("ping", << >>, o) EXCEPT !.raise_exception = raise_exception,
                                                    !.resBool = out.resBool,
                                                    !.exc = out.exc]
    /\ UNCHANGED <<config, last, au, rt, lc, cr, sz>>

Diagnostics ==
    /\ ro.op = "idle"
    /\ \E o \in Oracles(DiagnosticsFaults) :
       \E d \in { diagnostics(ks, config, o) } :
          /\ ks' = d.ks
          /\ ro' = [Called("diagnostics", << >>, o) EXCEPT !.resBool = d.passed,
                                                           !.checks = d.checks,
                                                           !.warned = d.warned]
    /\ UNCHANGED <<config, last, au, rt, lc, cr, sz>>

GetResourceMetadata ==
    /\ ro.op = "idle"
    /\ \E resource_backend_id \in { IdPlain, IdScenario },
          o \in Oracles(FaultChoices({""}, { <<"projects.list", "">> })) :
          ro' = [Called("metadata", resource_backend_id, o) EXCEPT
                    !.metadata = get_resource_metadata(ks, resource_backend_id, o)]
    /\ UNCHANGED <<ks, config, last, au, rt, lc, cr, sz>>

ListComponents ==
    /\ ro.op = "idle"
    /\ ro' = [Called("components", << >>, {}) EXCEPT !.listed = list_components(config)]
    /\ UNCHANGED <<ks, config, last, au, rt, lc, cr, sz>>

\* the listing is given the project name, or the identifier as it is
ListResourceUsers ==
    /\ ro.op = "idle"
    /\ \E resource_id \in { IdPlain, sanitize_for_openstack(IdPlain) },
          o \in Oracles(ListFaults) :
       \E listed \in Orders(list_resource_users(ks, resource_id, o)) :
          ro' = [Called("list_users", resource_id, o) EXCEPT !.listed = listed]
    /\ UNCHANGED <<ks, config, last, au, rt, lc, cr, sz>>

ReadReturn ==
    /\ ro.op # "idle"
    /\ ro' = NoRead
    /\ UNCHANGED <<ks, config, last, au, rt, lc, cr, sz>>

\* an attribute of the configuration object is assigned
ConfigEdited ==
    /\ ro.op = "idle"
    /\ config' \in Configs \ {config}
    /\ UNCHANGED <<ks, last, au, rt, lc, cr, sz, ro>>

\* the lookups of the gateway, each with one list request that can fail
GetDomain ==
    /\ ro.op = "idle"
    /\ \E o \in Oracles(FaultChoices({""}, { <<"domains.list", "">> })) :
          ro' = [Called("get_domain", Some(config.domain_name), o) EXCEPT
                    !.listed = get_domain(ks, o, 1)]
    /\ UNCHANGED <<ks, config, last, au, rt, lc, cr, sz>>

GetProject ==
    /\ ro.op = "idle"
    /\ \E project_name \in { sanitize_for_openstack(IdPlain), IdScenario },
          o \in Oracles(FaultChoices({""}, { <<"projects.list", "">> })) :
          ro' = [Called("get_project", Some(project_name), o) EXCEPT
                    !.listed = get_project(ks, project_name, o, 1, "")]
    /\ UNCHANGED <<ks, config, last, au, rt, lc, cr, sz>>

GetUser ==
    /\ ro.op = "idle"
    /\ \E username \in Usernames,
          o \in Oracles(FaultChoices({""}, { <<"users.list", "">> })) :
          ro' = [Called("get_user", Some(username), o) EXCEPT
                    !.listed = get_user(ks, username, o, 1, "")]
    /\ UNCHANGED <<ks, config, last, au, rt, lc, cr, sz>>

GetRole ==
    /\ ro.op = "idle"
    /\ \E role_name \in { config.default_role, OtherRole },
          o \in Oracles(FaultChoices({""}, { <<"roles.list", "">> })) :
          ro' = [Called("get_role", Some(role_name), o) EXCEPT
                    !.listed = get_role(ks, role_name, o, 1)]
    /\ UNCHANGED <<ks, config, last, au, rt, lc, cr, sz>>

\* the non-empty sets of usernames, in each order a loop can take them
UserOrders == UNION { Orders(S) : S \in (SUBSET Usernames) \ {{}} }

\* the engine calls for the resource "a 1", each with what it is called on
EngineCalls(k) ==
    { <<"create", [NoResource EXCEPT !.uuid = IdPlain], << >>,
        _create_resource_in_backend(k, [NoResource EXCEPT !.uuid = IdPlain], {})>>,
      <<"delete", ById(IdPlain), << >>, delete_resource(k, ById(IdPlain), {})>>,
      <<"downscale", ById(IdPlain), << >>, downscale_resource(k, IdPlain, {})>>,
      <<"restore", ById(IdPlain), << >>, restore_resource(k, IdPlain, {})>> }
    \cup { <<"add_users", ById(IdPlain), order,
             add_users_to_resource(k, IdPlain, order, {})>> : order \in UserOrders }
    \cup { <<"remove_users", ById(IdPlain), order,
             remove_users_from_resource(k, IdPlain, order, {})>> : order \in UserOrders }

\* between the read-only calls the engine serves the resource "a 1"
EngineCall ==
    /\ ro.op = "idle"
    /\ \E call \in EngineCalls(ks) :
          /\ ks' = call[4].ks
          /\ last' = Done(call[1], call[2], call[3], {}, call[4])
    /\ UNCHANGED <<config, au, rt, lc, cr, sz, ro>>

NextRead ==
    \/ Ping
    \/ Diagnostics
    \/ GetResourceMetadata
    \/ ListComponents
    \/ ListResourceUsers
    \/ GetDomain
    \/ GetProject
    \/ GetUser
    \/ GetRole
    \/ ReadReturn
    \/ ConfigEdited
    \/ EngineCall

SpecRead == Init /\ [][NextRead]_vars

-----------------------------------------------------------------------------
(* Calls of the gateway and of the client one at a time, on the identity   *)
(* service as the engine and grants from outside have left it              *)

RevokeFaults ==
    FaultChoices({""}, { <<"role_assignments.list", "">>,
                         <<"roles.revoke", "_member_">>, <<"roles.revoke", OtherRole>> })

RevokeAllProjectRoles ==
    /\ ro.op = "idle" /\ last.op = "idle"
    /\ \E user \in ks.users, project \in ks.projects, o \in Oracles(RevokeFaults) :
       \E out \in { revoke_all_project_roles(ks, user, project.name, o) } :
          /\ ks' = out.ks
          /\ ro' = [Called("revoke_all", <<user, project.name>>, o) EXCEPT
                       !.resBool = out.res, !.exc = out.exc]
    /\ UNCHANGED <<config, last, au, rt, lc, cr, sz>>

\* the project names a client call is given: that of resource "a 1", and
\* one that names no project
ClientProjectNames == { sanitize_for_openstack(IdPlain), IdScenario }

ClientDisableProject ==
    /\ ro.op = "idle" /\ last.op = "idle"
    /\ \E project_name \in ClientProjectNames, o \in Oracles(ToggleFaults) :
       \E out \in { client_disable_project(ks, project_name, o) } :
          /\ ks' = out.ks
          /\ ro' = [Called("client_disable", project_name, o) EXCEPT
                       !.resBool = out.res, !.exc = out.exc]
    /\ UNCHANGED <<config, last, au, rt, lc, cr, sz>>

ClientEnableProject ==
    /\ ro.op = "idle" /\ last.op = "idle"
    /\ \E project_name \in ClientProjectNames, o \in Oracles(ToggleFaults) :
       \E out \in { client_enable_project(ks, project_name, o) } :
          /\ ks' = out.ks
          /\ ro' = [Called("client_enable", project_name, o) EXCEPT
                       !.resBool = out.res, !.exc = out.exc]
    /\ UNCHANGED <<config, last, au, rt, lc, cr, sz>>

\* the deployment switches the auto-creation of users on or off
AutoCreationSwitched ==
    /\ ro.op = "idle" /\ last.op = "idle"
    /\ config' = [config EXCEPT !.create_users_if_not_exist = ~ @]
    /\ UNCHANGED <<ks, last, au, rt, lc, cr, sz, ro>>

\* the engine and the outside act between two observed calls, not during one
GrantBetweenCalls == ro.op = "idle" /\ ExternalGrant

ReturnBetweenCalls == ro.op = "idle" /\ ReturnToCaller

NextClient ==
    \/ RevokeAllProjectRoles
    \/ ClientDisableProject
    \/ ClientEnableProject
    \/ ReadReturn
    \/ EngineCall
    \/ GrantBetweenCalls
    \/ ReturnBetweenCalls
    \/ AutoCreationSwitched

SpecClient == Init /\ [][NextClient]_vars

-----------------------------------------------------------------------------
(* Properties *)

\* the project name a call works on
NameOf(call) == sanitize_for_openstack(_extract_backend_id(call.resource))

\* every role assignment of a user in a project, whatever the role
AssignmentsOf(k, user, project) == { a \in k.ra : a[1] = user /\ a[2] = project }

\* the part of the call that works on user u met a failing lookup
LookupFailed(o, u) ==
    \E c \in o : c[1] = u /\ c[2] \in {"projects.list", "users.list"}

\* C1: create_resource for identifier X, called again after it succeeded,
\* returns the same identifier X, issues no project creation and leaves the
\* identity service as it is; one call creates at most one project, and
\* exactly one project named sanitize(X) exists afterwards.  Whatever fails
\* during the second call, it never makes a second project.
C1_CreateIsIdempotent ==
    (last.op = "create" /\ validate_backend_id(last.resource.uuid)) =>
        /\ Cardinality(ks.projects \ last.pre.projects) <= 1
        /\ Cardinality(ProjectsNamed(ks, NameOf(last))) <= 1
        /\ last.o = {} => last.exc = "none"
        /\ last.exc = "none" =>
              /\ last.resId = last.resource.uuid
              /\ Cardinality(ProjectsNamed(ks, NameOf(last))) = 1
              /\ \A again \in { _create_resource_in_backend(ks, last.resource, {}) } :
                    /\ again.exc = "none"
                    /\ again.resId = last.resId
                    /\ again.ks = ks
                    /\ again.ev \cap {"projects.create", "projects.created"} = {}
              /\ \A o2 \in Oracles(CreateFaults) :
                 \A again \in { _create_resource_in_backend(ks, last.resource, o2) } :
                    /\ again.ks.projects = ks.projects
                    /\ again.exc = "none" => again.resId = last.resId

\* a create call that found the project of an earlier create call
C1_witness ==
    /\ last.op = "create"
    /\ last.exc = "none"
    /\ last.resId = IdPlain
    /\ ProjectsNamed(last.pre, sanitize_for_openstack(IdPlain)) # {}
    /\ ks = last.pre

\* C2 as stated: no step of add_users_to_resource issues a project creation,
\* so the set of projects is never enlarged by it.
C2_AddUsersNeverCreatesProject ==
    "projects.created" \notin au.ev

\* C3: add_users_to_resource on a backend id whose project does not exist
\* raises the not-found BackendError, grants nothing and changes nothing.
C3_AddBeforeCreateRaises ==
    (/\ last.op = "add_users"
     /\ Usable(last.resource.backend_id)
     /\ ProjectsNamed(last.pre, NameOf(last)) = {}) =>
        /\ last.exc = "BackendError"
        /\ last.cause = "not_found"
        /\ last.resUsers = {}
        /\ last.ev = {}
        /\ last.per = NoPer
        /\ ks = last.pre

\* add_users for two users on a project that was never created
C3_witness ==
    /\ last.op = "add_users"
    /\ last.resource.backend_id = IdPlain
    /\ last.users = Usernames
    /\ ProjectsNamed(last.pre, NameOf(last)) = {}
    /\ last.exc = "BackendError"

\* the grant request for the user was answered, by success or by Conflict
Granted(call, u) ==
    call.per[u] \cap {"roles.grant.ok", "roles.grant.conflict"} # {}

\* C4: when the project exists and the existence check finds it,
\* add_users_to_resource raises nothing, works on every requested user
\* whatever happened to the users before, and returns exactly the users
\* whose grant was answered; each of them holds the default role, and a
\* user that failed holds what it held before.
C4_AddUsersIsolatesFailures ==
    (/\ last.op = "add_users"
     /\ Usable(last.resource.backend_id)
     /\ ProjectsNamed(last.pre, NameOf(last)) # {}
     /\ ~ Fails(For(last.o, ""), "projects.list", "", 1)) =>
        /\ last.exc = "none"
        /\ DOMAIN last.per = last.users
        /\ last.resUsers = { u \in last.users : Granted(last, u) }
        /\ \A u \in last.resUsers :
              <<u, NameOf(last), config.default_role>> \in ks.ra
        /\ \A u \in last.users \ last.resUsers :
              AssignmentsOf(ks, u, NameOf(last)) = AssignmentsOf(last.pre, u, NameOf(last))

\* the first user of the loop failed, the second was added all the same
C4_witness ==
    /\ last.op = "add_users"
    /\ last.exc = "none"
    /\ Len(last.order) = 2
    /\ last.order[1] \notin last.resUsers
    /\ last.order[2] \in last.resUsers
    /\ "roles.granted" \in last.per[last.order[2]]

\* C5: delete_resource for a resource whose project does not exist (deleted
\* earlier, or never created) returns without raising and changes nothing.
C5_DeleteAbsentIsNoOp ==
    (/\ last.op = "delete"
     /\ Len(_extract_backend_id(last.resource)) <= MaxBackendIdLen
     /\ ProjectsNamed(last.pre, NameOf(last)) = {}) =>
        /\ last.exc = "none"
        /\ ks = last.pre
        /\ "projects.delete" \notin last.ev

\* a delete call for a project that an earlier call deleted: its users remain
C5_witness ==
    /\ last.op = "delete"
    /\ _extract_backend_id(last.resource) = IdPlain
    /\ ProjectsNamed(last.pre, NameOf(last)) = {}
    /\ last.pre.users # {}
    /\ last.exc = "none"

\* C6 as stated: when the delete request fails for another reason than
\* absence, delete_resource raises BackendError; it does not return
\* normally while the project still exists.
C6_DeleteFailureRaises ==
    /\ (last.op = "delete" /\ "projects.delete" \in last.ev
                           /\ "projects.deleted" \notin last.ev) =>
          last.exc = "BackendError"
    /\ (last.op = "delete" /\ "projects.delete" \in last.ev /\ last.exc = "none") =>
          ProjectsNamed(ks, NameOf(last)) = {}

C8_RemoveWithoutProjectIsEmpty ==
    (/\ last.op = "remove_users"
     /\ \/ last.resource.backend_id = << >>
        \/ IsBlank(last.resource.backend_id)
        \/ /\ validate_backend_id(last.resource.backend_id)
           /\ ProjectsNamed(last.pre, NameOf(last)) = {}) =>
        /\ last.exc = "none"
        /\ last.resList = << >>
        /\ last.ev = {}
        /\ ks = last.pre

\* remove_users for two users on a project that does not exist
C8_witness ==
    /\ last.op = "remove_users"
    /\ last.resource.backend_id = IdPlain
    /\ last.users = Usernames
    /\ ProjectsNamed(last.pre, NameOf(last)) = {}
    /\ last.resList = << >>

\* the service answers a grant of a role the user already holds with Conflict
ConflictOracles(users) ==
    Oracles(FaultChoices(users, { <<"roles.grant", "conflict">> }))

\* C9: add_users_to_resource called for a user that already holds the
\* default role in the project succeeds for that user, whether the service
\* answers the grant by success or by Conflict, and changes no role
\* assignment; a user that held nothing before the first call holds exactly
\* the default role after the second.
C9_AddTwiceIsIdempotent ==
    /\ (/\ last.op = "add_users"
        /\ Usable(last.resource.backend_id)
        /\ last.exc = "none"
        /\ last.o \in ConflictOracles(last.users)) =>
          \A u \in last.users :
             <<u, NameOf(last), config.default_role>> \in last.pre.ra =>
                /\ u \in last.resUsers
                /\ AssignmentsOf(ks, u, NameOf(last)) = AssignmentsOf(last.pre, u, NameOf(last))
    /\ (/\ last.op = "add_users"
        /\ Usable(last.resource.backend_id)
        /\ last.exc = "none"
        /\ last.o = {}) =>
          /\ last.resUsers = last.users
          /\ \A order2 \in Orders(last.users), o2 \in ConflictOracles(last.users) :
             \A second \in { add_users_to_resource(ks, last.resource.backend_id,
                                                   order2, o2) } :
                /\ second.exc = "none"
                /\ second.resUsers = last.users
                /\ second.ks.ra = ks.ra
                /\ \A u \in last.users :
                      AssignmentsOf(last.pre, u, NameOf(last)) = {} =>
                         AssignmentsOf(second.ks, u, NameOf(last))
                            = { <<u, NameOf(last), config.default_role>> }

\* a second add for a user that holds the default role, answered by Conflict
C9_witness ==
    /\ last.op = "add_users"
    /\ last.exc = "none"
    /\ \E u \in last.resUsers :
          /\ AssignmentsOf(last.pre, u, NameOf(last))
                = { <<u, NameOf(last), config.default_role>> }
          /\ "roles.grant.conflict" \in last.per[u]
          /\ AssignmentsOf(ks, u, NameOf(last)) = AssignmentsOf(last.pre, u, NameOf(last))

\* C10: on an existing project and without a failing request, disabling
\* (downscale, pause) reports success and leaves the project disabled, also
\* when it was disabled already; enabling (restore) reports success and
\* leaves it enabled, also when it was enabled already; an enable that
\* follows a disable re-enables the project.
C10_DisableEnableIdempotent ==
    (/\ last.op \in {"downscale", "pause", "restore"}
     /\ last.o = {}
     /\ ProjectsNamed(last.pre, NameOf(last)) # {}) =>
        /\ last.exc = "none"
        /\ last.resBool
        /\ ProjectsNamed(ks, NameOf(last)) # {}
        /\ \A p \in ProjectsNamed(ks, NameOf(last)) : p.enabled = (last.op = "restore")
        /\ \A enabled \in { restore_resource(ks, last.resource.backend_id, {}) } :
              /\ enabled.resBool
              /\ \A p \in ProjectsNamed(enabled.ks, NameOf(last)) : p.enabled
        /\ \A disabled \in { downscale_resource(ks, last.resource.backend_id, {}) } :
              /\ disabled.resBool
              /\ \A p \in ProjectsNamed(disabled.ks, NameOf(last)) : ~ p.enabled

\* a disable of a project that was disabled already
C10_witness ==
    /\ last.op = "downscale"
    /\ last.o = {}
    /\ \E p \in ProjectsNamed(last.pre, NameOf(last)) : ~ p.enabled
    /\ last.resBool
    /\ \A p \in ProjectsNamed(ks, NameOf(last)) : ~ p.enabled

\* the invocations that raised a failure of a retried kind
RetriedFailure(r, j) ==
    /\ r.calls[j].kind = "exc"
    /\ r.calls[j].exc[1].class \in r.exceptions

RECURSIVE SumSeq(_)
SumSeq(s) == IF s = << >> THEN 0 ELSE Head(s) + SumSeq(Tail(s))

\* C11 (as amended): an operation that fails with a retried kind on attempts
\* 1..k-1 and succeeds on attempt k <= max_attempts is invoked exactly k
\* times and its result is returned; the wrapper sleeps once before each
\* attempt j >= 2, for min(base_delay * exponential_base^(j-2), max_delay),
\* and not after the last attempt; for fail, fail, success with
\* max_attempts = 3 the total delay is min(base_delay, max_delay) +
\* min(base_delay * exponential_base, max_delay).
C11_RetrySucceedsWithCappedBackoff ==
    /\ Len(rt.slept) <= Len(rt.calls)
    /\ rt.pc = "try" => Len(rt.slept) = Len(rt.calls)
    /\ rt.pc = "returned" =>
          /\ Len(rt.calls) \in 1..rt.max_attempts
          /\ \A j \in 1..(Len(rt.calls) - 1) : RetriedFailure(rt, j)
          /\ rt.calls[Len(rt.calls)].kind = "ok"
          /\ rt.result = rt.calls[Len(rt.calls)].value
          /\ Len(rt.slept) = Len(rt.calls) - 1
          /\ \A j \in 2..Len(rt.calls) :
                rt.slept[j - 1] =
                    Min(rt.base_delay * Pow(rt.exponential_base, j - 2), rt.max_delay)
          /\ (rt.max_attempts = 3 /\ Len(rt.calls) = 3) =>
                SumSeq(rt.slept) =
                    Min(rt.base_delay, rt.max_delay)
                    + Min(rt.base_delay * rt.exponential_base, rt.max_delay)

\* C11 (as stated): for fail, fail, success with max_attempts = 3 the total
\* delay is base_delay + base_delay * exponential_base.
C11_TotalDelayIsUncapped ==
    (/\ rt.pc = "returned"
     /\ rt.max_attempts = 3
     /\ Len(rt.calls) = 3) =>
        SumSeq(rt.slept) = rt.base_delay + rt.base_delay * rt.exponential_base

\* fail, fail, success with max_attempts = 3, the second delay above the
\* first and neither capped
C11_witness ==
    /\ rt.pc = "returned"
    /\ rt.max_attempts = 3
    /\ Len(rt.calls) = 3
    /\ rt.slept = << 2, 4 >>
    /\ rt.max_delay = 60

\* C12: when every attempt fails with a retried kind, the operation is
\* invoked exactly max_attempts times and the exception of the last attempt
\* is the one the caller gets; no invocation ever follows the
\* max_attempts-th.
C12_ExhaustionRaisesLastFailure ==
    /\ Len(rt.calls) <= rt.max_attempts
    /\ (/\ rt.pc = "raised"
        /\ rt.max_attempts >= 1
        /\ \A j \in 1..Len(rt.calls) : RetriedFailure(rt, j)) =>
           /\ Len(rt.calls) = rt.max_attempts
           /\ rt.raised = rt.calls[rt.max_attempts].exc
           /\ Len(rt.slept) = rt.max_attempts - 1

\* three failures of retried kinds, the last of another class than the first
C12_witness ==
    /\ rt.pc = "raised"
    /\ rt.max_attempts = 3
    /\ Len(rt.calls) = 3
    /\ \A j \in 1..3 : RetriedFailure(rt, j)
    /\ rt.calls[1].exc[1].class # rt.calls[3].exc[1].class
    /\ rt.raised = rt.calls[3].exc

\* C13: a failure of a kind that is not retried surfaces on the attempt
\* where it occurs: it is the last invocation, the caller gets that
\* exception, and no sleep follows it.
C13_NonRetryableSurfacesAtOnce ==
    \A j \in 1..Len(rt.calls) :
        (rt.calls[j].kind = "exc" /\ ~ RetriedFailure(rt, j)) =>
            /\ j = Len(rt.calls)
            /\ rt.pc = "raised"
            /\ rt.raised = rt.calls[j].exc
            /\ Len(rt.slept) = j - 1

\* a failure that is not retried on the second of three allowed attempts
C13_witness ==
    /\ rt.pc = "raised"
    /\ rt.max_attempts = 3
    /\ Len(rt.calls) = 2
    /\ RetriedFailure(rt, 1)
    /\ rt.calls[2].kind = "exc"
    /\ ~ RetriedFailure(rt, 2)
    /\ rt.raised = rt.calls[2].exc

\* C14: on a fault-free identity service the scenario runs as stated:
\* create for "abc-123" returns "abc-123", adding alice and bob returns both,
\* removing alice returns the list of alice alone, the listing of the
\* project's users is then bob alone, and after the deletion the project is
\* absent and the metadata of the resource is the empty mapping; no call of
\* the scenario raises.
C14_LifecycleScenario ==
    /\ lc.exc = "none"
    /\ lc.step >= 1 => lc.created = IdScenario
    /\ lc.step \in 1..4 => ProjectsNamed(ks, sanitize_for_openstack(IdScenario)) # {}
    /\ lc.step >= 2 => lc.added = {"alice", "bob"}
    /\ lc.step >= 3 => lc.removed = << "alice" >>
    /\ lc.step >= 4 => lc.listed = << "bob" >>
    /\ lc.step >= 5 => ProjectsNamed(ks, sanitize_for_openstack(IdScenario)) = {}
    /\ lc.step >= 6 => (lc.absent /\ DOMAIN lc.metadata = {})

\* the scenario has run to its end while alice holds a role in the project
\* of another resource
C14_witness ==
    /\ lc.step = 6
    /\ lc.created = IdScenario
    /\ lc.listed = << "bob" >>
    /\ lc.absent
    /\ DOMAIN lc.metadata = {}
    /\ AssignmentsOf(ks, "alice", sanitize_for_openstack(IdPlain)) # {}

\* C15: when two callers create the same identifier at the same time and
\* both found no project before either created it, both calls return that
\* identifier without error, the loser by the lookup that follows the
\* Conflict, and exactly one project of the name exists; at no time does the
\* service hold two projects of one name.
C15_CreateRaceResolves ==
    /\ \A name \in { sanitize_for_openstack(u) : u \in RaceUuids } :
          Cardinality(ProjectsNamed(ks, name)) <= 1
    /\ (/\ \A c \in Callers : cr[c].pc = "returned" /\ cr[c].observed = "not_found"
        /\ cr[1].resource.uuid = cr[2].resource.uuid) =>
           /\ \A c \in Callers : cr[c].exc = "none" /\ cr[c].result = cr[c].resource.uuid
           /\ cr[1].result = cr[2].result
           /\ Cardinality(ProjectsNamed(ks, RaceName(1))) = 1

\* both callers found nothing, asked for different descriptions, and both
\* have the identifier back; the project is the one of the first to create
C15_witness ==
    /\ \A c \in Callers : cr[c].pc = "returned" /\ cr[c].observed = "not_found"
    /\ cr[1].resource.uuid = cr[2].resource.uuid
    /\ cr[1].resource.name # cr[2].resource.name
    /\ cr[1].result = cr[2].result
    /\ cr[1].exc = "none" /\ cr[2].exc = "none"
    /\ ProjectsNamed(ks, RaceName(1)) =
          { NewProject(RaceName(2), DescriptionOf(cr[2].resource)) }

\* the project a resource identifier addresses, and its role assignments
ProjectOf(k, id) ==
    [projects |-> ProjectsNamed(k, sanitize_for_openstack(id)),
     ra |-> { a \in k.ra : a[2] = sanitize_for_openstack(id) }]

\* C16: an operation for identifier A (create, delete, enable, disable,
\* addUsers, removeUsers) leaves the project addressed by any other
\* identifier B, and its role assignments, unchanged.
C16_IdentifiersAreIndependent ==
    last.op # "idle" =>
        \A B \in PairIds \ { _extract_backend_id(last.resource) } :
            ProjectOf(ks, B) = ProjectOf(last.pre, B)

\* C17: the sanitizer gives every name a result that is not empty, starts
\* with a letter or a digit, is not made of digits only and holds no
\* character outside letters, digits, "_", "." and "-"; sanitizing the
\* result again gives the result back.
C17_SanitizeIsTotalAndIdempotent ==
    /\ sz.pc # "idle" =>
          /\ sz.once # << >>
          /\ Head(sz.once) \in Letters \cup Digits
          /\ ~ IsDigit(sz.once)
          /\ \A i \in 1..Len(sz.once) : sz.once[i] \in Letters \cup Digits \cup {"_", ".", "-"}
    /\ sz.pc = "twice" => sz.twice = sz.once

\* a name that loses its leading space, is left with a digit and gets the
\* prefix; the second pass changes nothing
C17_witness ==
    /\ sz.pc = "twice"
    /\ sz.input = << " ", "1" >>
    /\ sz.once = ProjectPrefix \o << "1" >>
    /\ sz.twice = sz.once

\* the resource whose deletion has just completed, as a new order carries it
Recreated(call) == [NoResource EXCEPT !.uuid = _extract_backend_id(call.resource)]

\* C18: once delete_resource has deleted the project of an identifier, no
\* engine operation for that identifier (create, enable, disable, addUsers,
\* removeUsers) makes a project of its name exist again.
C18_DeletedIsTerminal ==
    (last.op = "delete" /\ "projects.deleted" \in last.ev) =>
        /\ \A out \in { _create_resource_in_backend(ks, Recreated(last), {}) } :
              ProjectsNamed(out.ks, NameOf(last)) = {}
        /\ \A out \in { restore_resource(ks, _extract_backend_id(last.resource), {}),
                        downscale_resource(ks, _extract_backend_id(last.resource), {}) } :
              ProjectsNamed(out.ks, NameOf(last)) = {}
        /\ \A order \in Orders(Usernames) :
           \A out \in { add_users_to_resource(ks, _extract_backend_id(last.resource), order, {}),
                        remove_users_from_resource(ks, _extract_backend_id(last.resource),
                                                   order, {}) } :
              ProjectsNamed(out.ks, NameOf(last)) = {}

\* C18 (as amended): once delete_resource has deleted the project of an
\* identifier the project is absent, and enable, disable, addUsers and
\* removeUsers called afterwards for the identifier leave it absent; a new
\* create for the identifier makes a project of the name exist again,
\* enabled and without role assignments, and returns the identifier.
C18_OnlyCreateRevives ==
    (last.op = "delete" /\ "projects.deleted" \in last.ev) =>
        /\ ProjectsNamed(ks, NameOf(last)) = {}
        /\ \A out \in { restore_resource(ks, _extract_backend_id(last.resource), {}),
                        downscale_resource(ks, _extract_backend_id(last.resource), {}) } :
              ProjectsNamed(out.ks, NameOf(last)) = {}
        /\ \A order \in Orders(Usernames) :
           \A out \in { add_users_to_resource(ks, _extract_backend_id(last.resource), order, {}),
                        remove_users_from_resource(ks, _extract_backend_id(last.resource),
                                                   order, {}) } :
              ProjectsNamed(out.ks, NameOf(last)) = {}
        /\ \A out \in { _create_resource_in_backend(ks, Recreated(last), {}) } :
              /\ out.exc = "none"
              /\ out.resId = _extract_backend_id(last.resource)
              /\ ProjectsNamed(out.ks, NameOf(last)) # {}
              /\ \A p \in ProjectsNamed(out.ks, NameOf(last)) : p.enabled
              /\ ProjectOf(out.ks, _extract_backend_id(last.resource)).ra = {}

\* the deletion of a disabled project in which alice held a role
C18_witness ==
    /\ last.op = "delete"
    /\ "projects.deleted" \in last.ev
    /\ \E p \in ProjectsNamed(last.pre, NameOf(last)) : ~ p.enabled
    /\ AssignmentsOf(last.pre, "alice", NameOf(last)) # {}
    /\ ProjectsNamed(ks, NameOf(last)) = {}

\* C19: delete_resource for a resource whose backend_id is empty returns
\* without error, issues no request to the identity service and leaves it
\* as it was, whatever uuid the resource carries.
C19_DeleteWithoutBackendIdIsNoOp ==
    (last.op = "delete" /\ last.resource.backend_id = << >>) =>
        /\ last.exc = "none"
        /\ last.ev = {}
        /\ ks = last.pre

\* C20: _create_resource_in_backend for a resource without a uuid raises
\* BackendError, issues no request and leaves the identity service as it
\* was; nothing is returned.
C20_CreateWithoutUuidFails ==
    (last.op = "create" /\ last.resource.uuid = << >>) =>
        /\ last.exc = "BackendError"
        /\ last.cause = "missing_uuid"
        /\ last.resId = << >>
        /\ last.ev = {}
        /\ ks = last.pre

\* a named resource without uuid is refused while the service holds a project
C20_witness ==
    /\ last.op = "create"
    /\ last.resource.uuid = << >>
    /\ last.resource.name # << >>
    /\ last.exc = "BackendError"
    /\ ks.projects # {}
    /\ ks = last.pre

\* C21: no call of the engine removes a user, a domain or a role from the
\* identity service: after every call each of the three sets holds what it
\* held before; remove_users_from_resource and delete_resource leave the
\* set of users exactly as it was.
C21_EngineNeverDeletesUsersDomainsRoles ==
    last.op # "idle" =>
        /\ last.pre.users \subseteq ks.users
        /\ last.pre.domains \subseteq ks.domains
        /\ last.pre.roles \subseteq ks.roles
        /\ last.op \in {"remove_users", "delete"} => ks.users = last.pre.users

\* alice has lost her roles in the project and is still a user
C21_witness ==
    /\ last.op = "remove_users"
    /\ "roles.revoked" \in last.ev
    /\ last.resList = << "alice" >>
    /\ AssignmentsOf(last.pre, "alice", NameOf(last)) # {}
    /\ AssignmentsOf(ks, "alice", NameOf(last)) = {}
    /\ "alice" \in ks.users

\* the token request of the observed call failed for good, or gave no token
TokenRequestFailed(call) ==
    get_token(call.o).exc # "none" \/ get_token(call.o).res = None

\* C22: ping returns TRUE when a token is obtained; when the token request
\* fails it returns FALSE if raising was not requested and raises
\* BackendError if raise_exception is TRUE.
C22_PingRaisesWhenRequested ==
    ro.op = "ping" =>
        /\ ~ TokenRequestFailed(ro) => (ro.resBool /\ ro.exc = "none")
        /\ (TokenRequestFailed(ro) /\ ~ ro.raise_exception) => (~ ro.resBool /\ ro.exc = "none")
        /\ (TokenRequestFailed(ro) /\ ro.raise_exception) => ro.exc = "BackendError"


\* a ping that asked for the exception, with every attempt of the token
\* request failing
C22_failing_input ==
    /\ ro.op = "ping" /\ ro.raise_exception
    /\ get_token(ro.o).exc = "KeystoneClientError"
    /\ ~ ro.resBool /\ ro.exc = "none"


C24_ReadOnlyCallsChangeNothing ==
    ro.op \in {"ping", "diagnostics", "metadata", "components", "list_users"} =>
        ks = ro.pre

\* diagnostics has run without the default role and has not created it
C24_witness ==
    /\ ro.op = "diagnostics" /\ ks.projects # {}
    /\ "role" \in ro.warned /\ ks.roles = {}


\* the project a metadata call asks about, as the service held it
Asked(call) == ProjectsNamed(call.pre, sanitize_for_openstack(call.arg))

\* C25: get_resource_metadata returns the empty mapping, raising nothing,
\* when no project exists for the backend id; when the project exists it
\* returns its identifier, name, domain, description and current enabled
\* flag: TRUE right after creation, FALSE after disable, TRUE after enable.
C25_MetadataReflectsProject ==
    (ro.op = "metadata" /\ ro.o = {}) =>
        /\ ro.exc = "none"
        /\ Asked(ro) = {} => ro.metadata = EmptyMapping
        /\ \A project \in Asked(ro) :
              /\ DOMAIN ro.metadata =
                    {"project_id", "project_name", "domain", "enabled", "description"}
              /\ ro.metadata.project_id = project.name
              /\ ro.metadata.project_name = project.name
              /\ ro.metadata.domain = config.domain_name
              /\ ro.metadata.description = project.description
              /\ ro.metadata.enabled = project.enabled
              /\ (last.op = "create" /\ last.exc = "none"
                  /\ ProjectsNamed(last.pre, project.name) = {}) => ro.metadata.enabled
              /\ (last.op = "downscale" /\ last.exc = "none") => ~ ro.metadata.enabled
              /\ (last.op = "restore" /\ last.exc = "none") => ro.metadata.enabled

\* the metadata of a project read right after it was disabled
C25_witness ==
    /\ ro.op = "metadata" /\ ro.o = {} /\ last.op = "downscale"
    /\ Asked(ro) # {} /\ ro.metadata # EmptyMapping
    /\ ~ ro.metadata.enabled


\* C26: a failure that aborts a whole add_users_to_resource or
\* remove_users_from_resource call reaches the caller as BackendError with
\* its cause, for every non-empty backend id, the over-long one included;
\* a failure for one user is never raised.
C26_AbortsRaiseBackendError ==
    (/\ last.op \in {"add_users", "remove_users"}
     /\ last.resource.backend_id # << >>) =>
        /\ last.exc \in {"none", "BackendError"}
        /\ last.exc = "BackendError" => last.cause # ""
        /\ last.exc # "none" => last.per = NoPer

\* add or remove users called with a backend id of 256 characters: the
\* caller gets UnboundLocalError
C26_failing_input ==
    /\ last.op \in {"add_users", "remove_users"}
    /\ Len(last.resource.backend_id) = MaxBackendIdLen + 1
    /\ last.exc = "UnboundLocalError"

\* the same statement for the backend ids that pass validate_backend_id
C26_AbortsRaiseBackendErrorForValidIds ==
    (/\ last.op \in {"add_users", "remove_users"}
     /\ last.resource.backend_id # << >>
     /\ validate_backend_id(last.resource.backend_id)) =>
        /\ last.exc \in {"none", "BackendError"}
        /\ last.exc = "BackendError" => last.cause # ""
        /\ last.exc # "none" => last.per = NoPer


\* C27 as stated: the backend id _create_resource_in_backend returns equals
\* the sanitized uuid, the name of the project that exists after the call.
C27_ReturnedIdIsSanitizedUuid ==
    (last.op = "create" /\ last.exc = "none") =>
        /\ last.resId = sanitize_for_openstack(last.resource.uuid)
        /\ ProjectsNamed(ks, last.resId) # {}

\* C27, amended: the backend id _create_resource_in_backend returns is the
\* uuid itself, and the project that exists after the call is named by the
\* sanitized form of the returned id; the two are equal only for a uuid the
\* sanitizer leaves unchanged.
C27_ReturnedIdIsUuidAndSanitizesToProject ==
    (last.op = "create" /\ last.exc = "none") =>
        /\ last.resId = last.resource.uuid
        /\ ProjectsNamed(ks, sanitize_for_openstack(last.resId)) # {}
        /\ (last.resId = sanitize_for_openstack(last.resource.uuid)
            <=> sanitize_for_openstack(last.resource.uuid) = last.resource.uuid)

\* a project created for a uuid the sanitizer changes: the returned id is
\* the uuid and names no project, its sanitized form names the new project
C27_witness ==
    /\ last.op = "create" /\ last.exc = "none"
    /\ "projects.create" \in last.ev
    /\ last.resId = last.resource.uuid
    /\ sanitize_for_openstack(last.resId) # last.resId
    /\ ProjectsNamed(ks, last.resId) = {}
    /\ ProjectsNamed(ks, sanitize_for_openstack(last.resId)) # {}


\* C28: every role assignment an engine call creates is for the configured
\* default role, and every username add_users_to_resource returns exists as
\* a user and holds the default role in the target project when the call
\* returns.
C28_AddPathGrantsDefaultRoleOnly ==
    last.op # "idle" =>
        /\ \A a \in ks.ra \ last.pre.ra : a[3] = config.default_role
        /\ last.op = "add_users" =>
              \A u \in last.resUsers :
                  /\ u \in ks.users
                  /\ <<u, NameOf(last), config.default_role>> \in ks.ra

\* add_users_to_resource has created a user and granted it the default role
\* in a project where another user holds a role granted from outside
C28_witness ==
    /\ last.op = "add_users"
    /\ \E u \in last.resUsers :
          /\ u \notin last.pre.users
          /\ ks.ra \ last.pre.ra = {<<u, NameOf(last), config.default_role>>}
    /\ \E a \in last.pre.ra : a[2] = NameOf(last) /\ a[3] = OtherRole


\* the requests with which the gateway changes the identity service
MutatingRequests ==
    { "domains.create", "projects.create", "projects.delete", "projects.update",
      "users.create", "roles.create", "roles.grant", "roles.revoke" }

\* the requests issued from create_project and ensure_user, the two mutating
\* gateway functions whose retry wrapper sees their exceptions
RetriedRequests == { "domains.create", "projects.create", "users.create" }

\* every failure of the call was a first attempt of one of the given requests
TransientIn(call, requests) ==
    /\ call.op # "idle" /\ call.o # {}
    /\ \A c \in call.o : c[2] \in requests /\ c[3] = "" /\ c[4] = 1

\* the identity service the same call leaves behind when no request fails
Replayed(call) ==
    CASE call.op = "create" -> _create_resource_in_backend(call.pre, call.resource, {}).ks
      [] call.op = "delete" -> delete_resource(call.pre, call.resource, {}).ks
      [] call.op = "add_users" ->
            add_users_to_resource(call.pre, call.resource.backend_id, call.order, {}).ks
      [] call.op = "remove_users" ->
            remove_users_from_resource(call.pre, call.resource.backend_id, call.order, {}).ks
      [] call.op = "downscale" -> downscale_resource(call.pre, call.resource.backend_id, {}).ks
      [] call.op = "pause" -> pause_resource(call.pre, call.resource.backend_id, {}).ks
      [] call.op = "restore" -> restore_resource(call.pre, call.resource.backend_id, {}).ks
      [] OTHER -> call.pre

\* C29: every mutating gateway operation (create, delete, enable, disable
\* project, ensure user, assign role, revoke role) is retried: when a
\* request fails on its first attempt only, the call achieves what it
\* achieves without the failure.
C29_MutatingCallsAreRetried ==
    TransientIn(last, MutatingRequests) => ks = Replayed(last)

\* the part of C29 that holds: create_project and ensure_user are retried
C29_CreateProjectAndEnsureUserAreRetried ==
    TransientIn(last, RetriedRequests) => ks = Replayed(last)

\* delete_resource whose projects.delete request failed once: the project
\* is still there and the call has returned without an exception
C29_failing_input ==
    /\ last.op = "delete" /\ last.exc = "none"
    /\ \E c \in last.o : c[2] = "projects.delete" /\ c[4] = 1
    /\ "projects.delete" \in last.ev
    /\ ProjectsNamed(ks, NameOf(last)) # {}
    /\ ks # Replayed(last)

\* a creation whose projects.create request failed once and was retried
C29_retried_witness ==
    /\ last.op = "create" /\ last.exc = "none"
    /\ \E c \in last.o : c[2] = "projects.create" /\ c[4] = 1
    /\ "create_project.retry" \in last.ev
    /\ ProjectsNamed(ks, NameOf(last)) # {} /\ ProjectsNamed(last.pre, NameOf(last)) = {}


\* the entity a gateway lookup asked for was in the identity service
Existed(call) ==
    CASE call.op = "get_domain" -> call.arg[1] \in call.pre.domains
      [] call.op = "get_project" -> ProjectsNamed(call.pre, call.arg[1]) # {}
      [] call.op = "get_user" -> call.arg[1] \in call.pre.users
      [] call.op = "get_role" -> call.arg[1] \in call.pre.roles
      [] OTHER -> FALSE

\* C30: get_domain, get_project, get_user and get_role never raise: they
\* return the entity when it exists and the list request succeeds, and
\* nothing both when it does not exist and when the list request fails.
C30_LookupsNeverRaise ==
    ro.op \in {"get_domain", "get_project", "get_user", "get_role"} =>
        /\ ro.exc = "none"
        /\ ro.listed = IF ro.o = {} /\ Existed(ro) THEN ro.arg ELSE None
        /\ ks = ro.pre

\* the lookup of a user that exists, answered by nothing because the list
\* request failed
C30_witness ==
    /\ ro.op = "get_user" /\ Existed(ro)
    /\ ro.o # {} /\ ro.listed = None /\ ro.exc = "none"


\* the roles whose revoke request the oracle of a call lets fail
RevokeFailed(call) == { c[3] : c \in { d \in call.o : d[2] = "roles.revoke" } }

\* the roles the user of a revoke_all call held in its project before it
HeldBefore(call) == RolesOf(call.pre, call.arg[1], call.arg[2])

\* C31: revoke_all_project_roles attempts a revoke for every assignment
\* listed for the user in the project, also after one revoke has failed,
\* and returns TRUE exactly when every revoke succeeded (and when there was
\* no assignment); a failed listing or a failed revoke gives FALSE.
C31_RevokeAllAttemptsEveryAssignment ==
    ro.op = "revoke_all" =>
        /\ ro.exc = "none"
        /\ IF \E c \in ro.o : c[2] = "role_assignments.list"
           THEN ~ ro.resBool /\ ks = ro.pre
           ELSE /\ RolesOf(ks, ro.arg[1], ro.arg[2]) = HeldBefore(ro) \cap RevokeFailed(ro)
                /\ ro.resBool <=> (HeldBefore(ro) \cap RevokeFailed(ro) = {})
        /\ ks.ra \subseteq ro.pre.ra
        /\ \A a \in ro.pre.ra \ ks.ra : a[1] = ro.arg[1] /\ a[2] = ro.arg[2]

\* the user held two roles, the revoke of one failed, the other was revoked
\* all the same and the call returned FALSE
C31_witness ==
    /\ ro.op = "revoke_all" /\ ~ ro.resBool
    /\ HeldBefore(ro) = {config.default_role, OtherRole}
    /\ Cardinality(RolesOf(ks, ro.arg[1], ro.arg[2])) = 1


\* C32: with create_users_if_not_exist off, add_users_to_resource for a
\* username that is no user creates no user and grants it no role, leaves
\* it out of the result and still serves the other usernames; with it on,
\* the user is created by the first grant and never a second time.
C32_AutoCreationDecidesMissingUsers ==
    (/\ last.op = "add_users" /\ last.o = {}
     /\ ProjectsNamed(last.pre, NameOf(last)) # {}) =>
        /\ last.exc = "none"
        /\ \A u \in last.users \ last.pre.users :
              IF config.create_users_if_not_exist
              THEN /\ u \in ks.users /\ u \in last.resUsers
                   /\ "users.created" \in last.per[u]
              ELSE /\ u \notin ks.users /\ u \notin last.resUsers
                   /\ AssignmentsOf(ks, u, NameOf(last)) = {}
                   /\ last.per[u] \cap {"users.create", "roles.grant"} = {}
        /\ \A u \in last.users \cap last.pre.users :
              /\ u \in last.resUsers
              /\ <<u, NameOf(last), config.default_role>> \in ks.ra
              /\ "users.create" \notin last.per[u]
        /\ ks.users \ last.pre.users \subseteq last.users

\* auto-creation is off: of two requested usernames the one that is a user
\* was granted the role, whichever came first, and the other was left out
C32_witness ==
    /\ last.op = "add_users" /\ ~ config.create_users_if_not_exist
    /\ Len(last.order) = 2
    /\ last.order[1] \notin last.pre.users /\ last.order[2] \in last.pre.users
    /\ last.resUsers = {last.order[2]}
    /\ ks.users = last.pre.users


\* the gateway call behind a client toggle raised: the project was found
\* and the update request failed
GatewayToggleRaised(call) ==
    /\ ProjectsNamed(call.pre, call.arg) # {}
    /\ ~ \E c \in call.o : c[2] = "projects.list"
    /\ \E c \in call.o : c[2] = "projects.update"

\* C33: OpenStackClient.disable_project and enable_project never raise:
\* they return TRUE when the gateway call completes and FALSE when it raises.
C33_ClientTogglesReturnBoolean ==
    ro.op \in {"client_disable", "client_enable"} =>
        /\ ro.exc = "none"
        /\ ro.resBool <=> ~ GatewayToggleRaised(ro)
        /\ GatewayToggleRaised(ro) => ks = ro.pre
        /\ (ro.o = {}) =>
              \A p \in ProjectsNamed(ks, ro.arg) : p.enabled = (ro.op = "client_enable")

\* the update request of a disable failed: FALSE came back, nothing was raised
C33_witness ==
    /\ ro.op = "client_disable" /\ GatewayToggleRaised(ro)
    /\ ~ ro.resBool /\ ro.exc = "none"
    /\ \A p \in ProjectsNamed(ks, ro.arg) : p.enabled


\* the identity service rejected the creation on every attempt of the call
CreationRejected(call) ==
    /\ call.op = "create"
    /\ \E c \in call.o : c[2] = "projects.create" /\ c[4] = GatewayMaxAttempts
    /\ "projects.create" \in call.ev

\* C34: when the identity service rejects the creation, other than by a
\* conflict, on every attempt, OpenStackClient.create_project raises
\* KeystoneClientError, _create_resource_in_backend raises BackendError, and
\* no project is created: an identifier without project still has none.
C34_RejectedCreationIsBackendError ==
    CreationRejected(last) =>
        /\ client_create_project(last.pre, NameOf(last),
                                 Some(DescriptionOf(last.resource)), last.o).exc
              = "KeystoneClientError"
        /\ last.exc = "BackendError" /\ last.cause = "keystone"
        /\ last.resId = << >>
        /\ "create_project.retry" \in last.ev
        /\ ks.projects = last.pre.projects
        /\ ProjectsNamed(last.pre, NameOf(last)) = {} => ProjectsNamed(ks, NameOf(last)) = {}

\* a creation for an identifier without project, rejected on all attempts
C34_witness ==
    /\ CreationRejected(last)
    /\ last.exc = "BackendError"
    /\ ProjectsNamed(last.pre, NameOf(last)) = {}
    /\ ProjectsNamed(ks, NameOf(last)) = {}


\* the invocations and sleeps of a retried call stay within their bounds
RetryIsBounded ==
    /\ Len(rt.calls) <= rt.max_attempts
    /\ rt.max_attempts >= 1 => Len(rt.slept) <= rt.max_attempts - 1
    /\ \A j \in 1..Len(rt.slept) : rt.slept[j] <= rt.max_delay
    /\ SumSeq(rt.slept) <= rt.max_delay * rt.max_attempts

\* C35: a retried call is invoked at most max_attempts times and sleeps at
\* most max_attempts - 1 times, each for at most max_delay, so that its
\* total sleep is at most max_delay * max_attempts; and whatever fails, a
\* retried call that has begun returns or raises.
C35_RetriedCallTerminates ==
    /\ []RetryIsBounded
    /\ (rt.pc \in {"try", "sleep"}) ~> (rt.pc \in {"returned", "raised"})

\* every attempt of a call with max_attempts = 3 failed: three invocations,
\* two sleeps, both cut to max_delay, and the exception is raised
C35_witness ==
    /\ rt.pc = "raised" /\ rt.max_attempts = 3
    /\ Len(rt.calls) = 3 /\ Len(rt.slept) = 2
    /\ rt.slept = << rt.max_delay, rt.max_delay >>
    /\ rt.base_delay > rt.max_delay


\* C36: _create_resource_in_backend for an identifier whose project exists
\* changes nothing in the identity service: the project's enabled flag, also
\* when it is FALSE, its description and its role assignments are as before,
\* whichever request fails.
C36_CreateOnExistingChangesNothing ==
    (last.op = "create" /\ ProjectsNamed(last.pre, NameOf(last)) # {}) =>
        /\ ks = last.pre
        /\ last.ev \cap {"projects.created", "projects.update"} = {}
        /\ (last.exc = "none" /\ validate_backend_id(last.resource.uuid)) =>
              last.resId = last.resource.uuid

\* a create call, with a display name, on a disabled project that has a
\* member and another description: it returned and the project is as it was
C36_witness ==
    /\ last.op = "create" /\ last.exc = "none"
    /\ last.resource.name # << >>
    /\ \E p \in ProjectsNamed(ks, NameOf(last)) :
          /\ ~ p.enabled
          /\ p.description # DescriptionOf(last.resource)
          /\ \E a \in ks.ra : a[2] = p.name
    /\ ks = last.pre


\* C37: downscale_resource, pause_resource and restore_resource for an
\* identifier without project return TRUE, create no project and leave the
\* identity service as it is.
C37_ToggleWithoutProjectIsTrue ==
    (/\ last.op \in {"downscale", "pause", "restore"}
     /\ ProjectsNamed(last.pre, sanitize_for_openstack(last.resource.backend_id)) = {}) =>
        /\ last.exc = "none"
        /\ last.resBool
        /\ ks = last.pre
        /\ last.ev \cap {"projects.create", "projects.update"} = {}

\* a project was deleted; the downscale of its identifier returned TRUE and
\* there is still no project
C37_witness ==
    /\ last.op = "downscale" /\ last.resBool
    /\ last.resource.backend_id = IdPlain
    /\ ks.domains # {}
    /\ ProjectsNamed(ks, sanitize_for_openstack(IdPlain)) = {}
    /\ ks = last.pre


\* C38: remove_users_from_resource changes nothing but role assignments of
\* the listed usernames in the addressed project: projects, with their
\* enabled flags, users, roles and domains stay, and so do the assignments
\* of unlisted users and of other projects.
C38_RemoveUsersTouchesListedAssignmentsOnly ==
    last.op = "remove_users" =>
        /\ ks.projects = last.pre.projects
        /\ ks.users = last.pre.users
        /\ ks.roles = last.pre.roles
        /\ ks.domains = last.pre.domains
        /\ ks.ra \subseteq last.pre.ra
        /\ \A a \in last.pre.ra \ ks.ra : a[1] \in last.users /\ a[2] = NameOf(last)

\* one of two members was removed from a project; the other member, and the
\* removed user's role in a second project, are untouched
C38_witness ==
    /\ last.op = "remove_users" /\ Cardinality(last.users) = 1
    /\ \E u \in last.users :
          /\ AssignmentsOf(last.pre, u, NameOf(last)) # {}
          /\ AssignmentsOf(ks, u, NameOf(last)) = {}
          /\ \E a \in ks.ra : a[1] = u /\ a[2] # NameOf(last)
    /\ \E a \in ks.ra : a[1] \notin last.users /\ a[2] = NameOf(last)


\* the user lookup of the call for username u gave nothing: there is no
\* such user, or the list request failed
UserLookupAbsent(call, u) ==
    \/ u \notin call.pre.users
    \/ \E c \in call.o : c[1] = u /\ c[2] = "users.list"

\* C39: remove_users_from_resource returns a username as removed whenever
\* the user lookup for it gives nothing: a requested username that is no
\* user is in the returned list, and no revoke is issued for it.
C39_AbsentUserIsReportedRemoved ==
    last.op = "remove_users" =>
        \A u \in DOMAIN last.per :
            UserLookupAbsent(last, u) =>
                /\ \E i \in 1..Len(last.resList) : last.resList[i] = u
                /\ last.per[u] \cap {"role_assignments.list", "roles.revoke"} = {}
                /\ AssignmentsOf(ks, u, NameOf(last)) = AssignmentsOf(last.pre, u, NameOf(last))

\* a username that is no user was returned as removed next to a member
\* whose role was revoked
C39_witness ==
    /\ last.op = "remove_users" /\ last.o = {}
    /\ Len(last.resList) = 2
    /\ \E u \in last.users : u \notin last.pre.users
    /\ \E u \in last.users : "roles.revoked" \in last.per[u]

=============================================================================
